---- MODULE Spec2Model ----
(***************************************************************************)
(* Model of the ccflare proxy core: the request interception pipeline      *)
(* (system-prompt interceptor, agent interceptor) and the account failover *)
(* orchestrator handleProxy.                                               *)
(*                                                                         *)
(* Text is modelled as a sequence of tokens.  The markers the code         *)
(* searches for ("<env>", "</env>", "gitStatus:", the two template         *)
(* placeholders, the main-agent and sub-agent signatures) are single       *)
(* tokens; every other token stands for one character or one run of        *)
(* characters that contains no marker.                                     *)
(***************************************************************************)
EXTENDS Integers, Sequences, FiniteSets, TLC

\* ------------------------------------------------------------------------
\* Bounds of the model
\* ------------------------------------------------------------------------
MaxAccounts == 3
MaxRequests == 2
MaxPromptLen == 4
MaxTemplateLen == 2
MaxSignatureLen == 2
MaxSystemLen == 3
MaxMessages == 2
MaxWorkers == 2
MaxWorkerCalls == 5
MaxTime == 5
WORKER_SHUTDOWN_DELAY == 2

\* ------------------------------------------------------------------------
\* Tokens
\* ------------------------------------------------------------------------
ENV_OPEN == "<env>"
ENV_CLOSE == "</env>"
GIT_STATUS_MARKER == "gitStatus:"
ENV_PLACEHOLDER == "{{env_block}}"
GIT_PLACEHOLDER == "{{git_status_block}}"
MAIN_AGENT_SIGNATURE == "You are Claude Code, Anthropic's official CLI for Claude."
SUB_AGENT_SIGNATURE == "You are an agent for Claude Code"
DOLLAR == "$"
AMP == "&"
BACKTICK == "BACKTICK"
APOSTROPHE == "APOSTROPHE"

\* ------------------------------------------------------------------------
\* String primitives of the JavaScript runtime, on token sequences
\* ------------------------------------------------------------------------

\* String.prototype.includes
Includes(s, pat) ==
    \E i \in 0..(Len(s) - Len(pat)) : SubSeq(s, i + 1, i + Len(pat)) = pat

\* String.prototype.indexOf for a one-token pattern; 0 stands for -1,
\* positions are 1-based
IndexOf(s, tok) ==
    IF \E i \in 1..Len(s) : s[i] = tok
    THEN CHOOSE i \in 1..Len(s) : s[i] = tok /\ \A j \in 1..(i - 1) : s[j] # tok
    ELSE 0

\* String.prototype.substring(from) with a 1-based position
Substring(s, from) == SubSeq(s, from, Len(s))

\* Array.prototype.join on an array of texts
RECURSIVE Join(_, _)
Join(parts, sep) ==
    IF Len(parts) = 0 THEN << >>
    ELSE IF Len(parts) = 1 THEN parts[1]
    ELSE parts[1] \o sep \o Join(Tail(parts), sep)

\* text.match(/<env>([\s\S]*?)<\/env>/g): the leftmost non-overlapping
\* matches, each from an opening marker to the nearest closing marker
RECURSIVE MatchEnvBlocksFrom(_, _)
MatchEnvBlocksFrom(s, from) ==
    LET opens == {i \in from..Len(s) :
                     s[i] = ENV_OPEN /\ \E j \in (i + 1)..Len(s) : s[j] = ENV_CLOSE}
    IN  IF opens = {} THEN << >>
        ELSE LET i == CHOOSE x \in opens : \A y \in opens : x <= y
                 j == CHOOSE x \in (i + 1)..Len(s) :
                        s[x] = ENV_CLOSE /\ \A y \in (i + 1)..(x - 1) : s[y] # ENV_CLOSE
             IN  <<SubSeq(s, i, j)>> \o MatchEnvBlocksFrom(s, j + 1)

MatchEnvBlocks(s) == MatchEnvBlocksFrom(s, 1)

\* GetSubstitution of String.prototype.replace for a pattern without capture
\* groups: "$$" is "$", "$&" the match, "$" then a backtick the text before the match,
\* "$" then an apostrophe the text after it; any other "$" stands for itself
RECURSIVE GetSubstitution(_, _, _, _)
GetSubstitution(repl, matched, before, after) ==
    IF Len(repl) = 0 THEN << >>
    ELSE IF repl[1] = DOLLAR /\ Len(repl) >= 2 /\ repl[2] = DOLLAR
         THEN <<DOLLAR>> \o GetSubstitution(SubSeq(repl, 3, Len(repl)), matched, before, after)
    ELSE IF repl[1] = DOLLAR /\ Len(repl) >= 2 /\ repl[2] = AMP
         THEN matched \o GetSubstitution(SubSeq(repl, 3, Len(repl)), matched, before, after)
    ELSE IF repl[1] = DOLLAR /\ Len(repl) >= 2 /\ repl[2] = BACKTICK
         THEN before \o GetSubstitution(SubSeq(repl, 3, Len(repl)), matched, before, after)
    ELSE IF repl[1] = DOLLAR /\ Len(repl) >= 2 /\ repl[2] = APOSTROPHE
         THEN after \o GetSubstitution(SubSeq(repl, 3, Len(repl)), matched, before, after)
    ELSE <<repl[1]>> \o GetSubstitution(Tail(repl), matched, before, after)

\* s.replace(/<placeholder>/g, repl) with a replacement string
RECURSIVE ReplaceFrom(_, _, _, _)
ReplaceFrom(s, i, placeholder, repl) ==
    IF i > Len(s) THEN << >>
    ELSE IF s[i] = placeholder
         THEN GetSubstitution(repl, <<placeholder>>, SubSeq(s, 1, i - 1),
                              SubSeq(s, i + 1, Len(s)))
              \o ReplaceFrom(s, i + 1, placeholder, repl)
    ELSE <<s[i]>> \o ReplaceFrom(s, i + 1, placeholder, repl)

Replace(s, placeholder, repl) == ReplaceFrom(s, 1, placeholder, repl)

\* ------------------------------------------------------------------------
\* Data model: request bodies, buffers, configuration records, deferred tasks
\* ------------------------------------------------------------------------

\* the value of an absent or empty `model` field (requestBody.model || null)
Null == "null"

\* an element of a `system` or `content` array
TextBlock(t) == [type |-> "text", hasText |-> TRUE, text |-> t]
OtherBlock == [type |-> "image", hasText |-> FALSE, text |-> << >>]

\* the `system` field or a message's `content`: absent, a string, or an array
AbsentContent == [kind |-> "absent", text |-> << >>, blocks |-> << >>]
StringContent(t) == [kind |-> "string", text |-> t, blocks |-> << >>]
ArrayContent(bs) == [kind |-> "array", text |-> << >>, blocks |-> bs]

\* the `tools` field: absent, an array of tools, or JSON null
AbsentTools == [kind |-> "absent", items |-> << >>]
ToolsArray(ts) == [kind |-> "array", items |-> ts]
NullTools == [kind |-> "null", items |-> << >>]

EmptyBody ==
    [model |-> Null, system |-> AbsentContent, messages |-> << >>, tools |-> AbsentTools]

\* A byte buffer: `fmt` tells whether the bytes are the sender's own layout
\* ("raw") or the output of JSON.stringify ("canon"); `valid` whether the bytes
\* parse as JSON; `body` is the value JSON.parse yields.
NoBuffer == [present |-> FALSE, fmt |-> "none", valid |-> FALSE, body |-> EmptyBody]
RawBuffer(b) == [present |-> TRUE, fmt |-> "raw", valid |-> TRUE, body |-> b]
GarbageBuffer == [present |-> TRUE, fmt |-> "raw", valid |-> FALSE, body |-> EmptyBody]

\* JSON.stringify followed by TextEncoder.encode into a new ArrayBuffer
Encode(b) == [present |-> TRUE, fmt |-> "canon", valid |-> TRUE, body |-> b]

\* the stored "system_prompt" interceptor record; NoConfig is the missing row
NoConfig ==
    [present |-> FALSE, isEnabled |-> FALSE, replacementPrompt |-> << >>,
     toolsEnabled |-> TRUE]
Config(en, tpl, te) ==
    [present |-> TRUE, isEnabled |-> en, replacementPrompt |-> tpl, toolsEnabled |-> te]

\* what a call of getInterceptorConfig that throws (the query fails, the
\* stored row does not parse) stands for
ConfigStoreError ==
    [present |-> FALSE, isEnabled |-> FALSE, replacementPrompt |-> << >>,
     toolsEnabled |-> TRUE, threw |-> TRUE]

\* dbOps.getInterceptorConfig("system_prompt"): the stored record, or a throw
getInterceptorConfig(stored, fails) == IF fails THEN ConfigStoreError ELSE stored

\* a callback handed to setImmediate: the key it updates and the value it
\* will pass; `defined` is FALSE when that value is `undefined` by the time
\* the callback runs
Task(key, defined, value) == [key |-> key, defined |-> defined, value |-> value]
LAST_SEEN_PROMPT == "last_seen_system_prompt"
LAST_SEEN_TOOLS == "last_seen_tools"

\* ------------------------------------------------------------------------
\* System-prompt interceptor (first pipeline stage)
\* ------------------------------------------------------------------------

isSystemMessageWithText(blocks, i) == i <= Len(blocks) /\ blocks[i].hasText

isMainAgent(text) == Includes(text, <<MAIN_AGENT_SIGNATURE>>)
isSubAgent(text) == Includes(text, <<SUB_AGENT_SIGNATURE>>)

\* a guard that forgets the sub-agent signature
NotMainAgentRequest_IgnoresSubAgent(text) == ~isMainAgent(text)

\* the guard `!isMainAgent || isSubAgent` on the first system block
NotMainAgentRequest(text) == ~isMainAgent(text) \/ isSubAgent(text)

\* envBlock of the original prompt: "" / the block / the blocks joined by "\n"
ExtractEnvBlock(text) == Join(MatchEnvBlocks(text), <<"\n">>)

\* gitStatusBlock of the original prompt
ExtractGitStatusBlock(text) ==
    IF IndexOf(text, GIT_STATUS_MARKER) # 0
    THEN Substring(text, IndexOf(text, GIT_STATUS_MARKER))
    ELSE << >>

\* newPrompt: the two replace calls, in the order the code makes them
ApplyTemplate(replacementPrompt, envBlock, gitStatusBlock) ==
    Replace(Replace(replacementPrompt, ENV_PLACEHOLDER, envBlock),
            GIT_PLACEHOLDER, gitStatusBlock)

\* a check that accepts every replacementPrompt
InvalidReplacementPrompt_Never(replacementPrompt) == FALSE

\* `!replacementPrompt || typeof replacementPrompt !== "string"`: the empty
\* text stands for the empty string and for every value that is no string
InvalidReplacementPrompt(replacementPrompt) == replacementPrompt = << >>

\* results of the stage: `caught` tells that its catch clause ran
Unchanged(tasks) ==
    [status |-> "ok", out |-> NoBuffer, sched |-> tasks, caught |-> FALSE]
Thrown(tasks) ==
    [status |-> "throw", out |-> NoBuffer, sched |-> tasks, caught |-> FALSE]
Caught(tasks) ==
    [status |-> "ok", out |-> NoBuffer, sched |-> tasks, caught |-> TRUE]

\* the body of the try block of applySystemPromptInterception
SystemPromptInterceptionTry(buf, cfg) ==
    LET body == buf.body
        blocks == body.system.blocks
        toolsTask(deleted) ==
            IF body.tools.kind = "array"
            THEN <<Task(LAST_SEEN_TOOLS, ~deleted, body.tools.items)>>
            ELSE << >>
    IN
    IF ~buf.valid THEN Thrown(<< >>)
    ELSE IF cfg = ConfigStoreError THEN Thrown(<< >>)
    ELSE IF ~cfg.present \/ ~cfg.isEnabled THEN Unchanged(<< >>)
    ELSE IF body.system.kind # "array" THEN Unchanged(<< >>)
    ELSE IF ~isSystemMessageWithText(blocks, 1) THEN Unchanged(<< >>)
    ELSE IF NotMainAgentRequest(blocks[1].text) THEN Unchanged(<< >>)
    ELSE IF ~isSystemMessageWithText(blocks, 2) THEN Unchanged(toolsTask(FALSE))
    ELSE
    LET originalPrompt == blocks[2].text
        promptTask == <<Task(LAST_SEEN_PROMPT, TRUE, originalPrompt)>>
        envBlock == ExtractEnvBlock(originalPrompt)
        gitStatusBlock == ExtractGitStatusBlock(originalPrompt)
        newPrompt == ApplyTemplate(cfg.replacementPrompt, envBlock, gitStatusBlock)
        rewritten == [body EXCEPT !.system.blocks[2].text = newPrompt]
    IN
    IF InvalidReplacementPrompt(cfg.replacementPrompt)
    THEN Unchanged(toolsTask(FALSE) \o promptTask)
    ELSE IF ~cfg.toolsEnabled /\ body.tools.kind = "null"
         THEN Thrown(promptTask)
    ELSE IF ~cfg.toolsEnabled /\ body.tools.kind = "array"
         THEN [status |-> "ok",
               out |-> Encode([rewritten EXCEPT !.tools = AbsentTools]),
               sched |-> toolsTask(TRUE) \o promptTask, caught |-> FALSE]
    ELSE [status |-> "ok", out |-> Encode(rewritten),
          sched |-> toolsTask(FALSE) \o promptTask, caught |-> FALSE]

VARIABLE systemKV  \* system_kv_store: key -> [set, value]

\* an interceptor that rewrites only while no prompt has been stored
applySystemPromptInterception_SkipsSeenPrompt(buf, cfg) ==
    IF ~buf.present THEN Unchanged(<< >>)
    ELSE LET r == SystemPromptInterceptionTry(buf, cfg)
         IN  IF r.status = "throw" THEN Caught(r.sched)
             ELSE IF systemKV[LAST_SEEN_PROMPT].set THEN [r EXCEPT !.out = NoBuffer]
             ELSE r

\* an interceptor without its catch clause
applySystemPromptInterception_NoCatch(buf, cfg) ==
    IF ~buf.present THEN Unchanged(<< >>) ELSE SystemPromptInterceptionTry(buf, cfg)

\* an interceptor that re-encodes the parsed body whenever it parsed one
applySystemPromptInterception_AlwaysEncodes(buf, cfg) ==
    IF ~buf.present THEN Unchanged(<< >>)
    ELSE LET r == SystemPromptInterceptionTry(buf, cfg)
         IN  IF r.status = "throw" THEN Caught(r.sched)
             ELSE IF ~r.out.present
                  THEN [status |-> "ok", out |-> Encode(buf.body), sched |-> r.sched,
                        caught |-> FALSE]
             ELSE r

\* applySystemPromptInterception: the null-buffer early return, the try block
\* and the catch clause that turns every exception into "unchanged"
applySystemPromptInterception(buf, cfg) ==
    IF ~buf.present THEN Unchanged(<< >>)
    ELSE LET r == SystemPromptInterceptionTry(buf, cfg)
         IN  IF r.status = "throw" THEN Caught(r.sched) ELSE r

\* ------------------------------------------------------------------------
\* Agent directory and preference store
\* ------------------------------------------------------------------------

CONTENTS_OF == "Contents of "
CLAUDE_MD == "/CLAUDE.md"
AGENTS_SUFFIX == "/.claude/agents"
NEWLINE == "\n"
SPACE == " "

Agent(id, sig, model) == [id |-> id, systemPrompt |-> sig, model |-> model]

\* agents known without any workspace registration
GlobalAgents ==
    << Agent("Agent42", <<SPACE, "sig42", SPACE>>, "base-v1"),
       Agent("Agent7", <<"sig7">>, "slow-v3"),
       Agent("Agent42b", <<"sig42", "more">>, "base-v1") >>

\* agents a registered workspace contributes
WorkspaceAgents(ws) == << Agent("WsAgent", <<"sigws">>, "ws-v1") >>

\* workspace roots that exist on disk (existsSync)
ExistingWorkspaces == {<<"/ws1">>}

\* agents the registry knows without any workspace registration
VARIABLE agentList

\* agentRegistry.getAgents() for a set of registered workspaces
getAgents(registered) ==
    IF registered = {} THEN agentList
    ELSE agentList \o WorkspaceAgents(CHOOSE w \in registered : TRUE)

\* dbOps.getAgentPreference(id)?.model, Null when no preference is stored
getAgentPreference(id) == IF id = "Agent42" THEN "fast-v2" ELSE Null

\* String.prototype.trim
RECURSIVE TrimStart(_)
TrimStart(s) ==
    IF Len(s) > 0 /\ s[1] \in {SPACE, NEWLINE} THEN TrimStart(Tail(s)) ELSE s
RECURSIVE TrimEnd(_)
TrimEnd(s) ==
    IF Len(s) > 0 /\ s[Len(s)] \in {SPACE, NEWLINE}
    THEN TrimEnd(SubSeq(s, 1, Len(s) - 1)) ELSE s
Trim(s) == TrimEnd(TrimStart(s))

\* ------------------------------------------------------------------------
\* Agent interceptor (second pipeline stage)
\* ------------------------------------------------------------------------

\* blocks.filter(type === "text" && !!text).map(text).join("\n")
RECURSIVE TextsOf(_)
TextsOf(blocks) ==
    IF Len(blocks) = 0 THEN << >>
    ELSE IF blocks[1].type = "text" /\ blocks[1].hasText /\ blocks[1].text # << >>
         THEN <<blocks[1].text>> \o TextsOf(Tail(blocks))
    ELSE TextsOf(Tail(blocks))
JoinedText(blocks) == Join(TextsOf(blocks), <<NEWLINE>>)

\* Array.prototype.find by role: the position of the first such message, or 0
FindRole(messages, role) ==
    IF \E i \in 1..Len(messages) : messages[i].role = role
    THEN CHOOSE i \in 1..Len(messages) :
            messages[i].role = role /\ \A j \in 1..(i - 1) : messages[j].role # role
    ELSE 0

HasClaudeMdMarkers(text) ==
    Includes(text, <<CONTENTS_OF>>) /\ Includes(text, <<CLAUDE_MD>>)

\* allSystemContent of extractSystemPrompt, as an array of texts
SystemContentParts(body) ==
    LET sys == body.system
        fromSystem ==
            IF sys.kind = "string" /\ sys.text # << >> THEN <<sys.text>>
            ELSE IF sys.kind = "array" /\ JoinedText(sys.blocks) # << >>
                 THEN <<JoinedText(sys.blocks)>>
            ELSE << >>
        si == FindRole(body.messages, "system")
        fromSystemMessage ==
            IF si = 0 THEN << >>
            ELSE LET c == body.messages[si].content
                 IN  IF c.kind = "string" THEN <<c.text>>
                     ELSE IF c.kind = "array" /\ JoinedText(c.blocks) # << >>
                          THEN <<JoinedText(c.blocks)>>
                     ELSE << >>
        ui == FindRole(body.messages, "user")
        fromUserMessage ==
            IF ui = 0 THEN << >>
            ELSE LET c == body.messages[ui].content
                     t == IF c.kind = "array" THEN JoinedText(c.blocks) ELSE c.text
                 IN  IF c.kind \in {"array", "string"} /\ HasClaudeMdMarkers(t)
                     THEN <<t>> ELSE << >>
    IN  fromSystem \o fromSystemMessage \o fromUserMessage

\* extractSystemPrompt: the parts joined by a blank line; `found` is FALSE for
\* the null result
extractSystemPrompt(body) ==
    LET parts == SystemContentParts(body)
    IN  [found |-> Len(parts) > 0, text |-> Join(parts, <<NEWLINE, NEWLINE>>)]

\* extractAgentDirectories: the resolved agents directories named in the text,
\* by an explicit <root>/.claude/agents path followed by a delimiter or by
\* "Contents of <root>/CLAUDE.md" on one line; a directory is the root text
\* followed by the suffix token
extractAgentDirectories(text) ==
    { <<text[i]>> \o <<AGENTS_SUFFIX>> : i \in
        { k \in 1..Len(text) :
            \/ /\ k + 2 <= Len(text)
               /\ text[k + 1] = AGENTS_SUFFIX
               /\ text[k + 2] \in {SPACE, NEWLINE}
               /\ text[k] \notin {SPACE, NEWLINE, CONTENTS_OF, CLAUDE_MD, AGENTS_SUFFIX}
            \/ /\ k > 1 /\ k + 1 <= Len(text)
               /\ text[k - 1] = CONTENTS_OF
               /\ text[k + 1] = CLAUDE_MD
               /\ text[k] \notin {NEWLINE, CLAUDE_MD} } }

\* dir.replace(/\/.claude\/agents$/, "")
WorkspaceOf(dir) ==
    IF Len(dir) > 0 /\ dir[Len(dir)] = AGENTS_SUFFIX
    THEN SubSeq(dir, 1, Len(dir) - 1) ELSE dir

\* a scan that keeps the last matching agent
FindAgent_LastMatch(agents, systemPrompt) ==
    IF \E i \in 1..Len(agents) : Includes(systemPrompt, Trim(agents[i].systemPrompt))
    THEN CHOOSE i \in 1..Len(agents) :
            /\ Includes(systemPrompt, Trim(agents[i].systemPrompt))
            /\ \A j \in (i + 1)..Len(agents) :
                    ~Includes(systemPrompt, Trim(agents[j].systemPrompt))
    ELSE 0

\* agents.find(agent => systemPrompt.includes(agent.systemPrompt.trim())):
\* the position of the first matching agent, or 0
FindAgent(agents, systemPrompt) ==
    IF \E i \in 1..Len(agents) : Includes(systemPrompt, Trim(agents[i].systemPrompt))
    THEN CHOOSE i \in 1..Len(agents) :
            /\ Includes(systemPrompt, Trim(agents[i].systemPrompt))
            /\ \A j \in 1..(i - 1) : ~Includes(systemPrompt, Trim(agents[j].systemPrompt))
    ELSE 0

\* interceptorConfig.config.promptTemplate: the stored record has no such
\* property, so the read yields undefined, which fails the non-empty check
\* exactly as the empty string does
PromptTemplateOf(cfg) ==
    IF "promptTemplate" \in DOMAIN cfg THEN cfg.promptTemplate ELSE << >>

InnerResult(modified, toolsRemoved, body, tasks) ==
    [modified |-> modified, toolsRemoved |-> toolsRemoved, body |-> body, sched |-> tasks]

\* the agent interceptor's own applySystemPromptInterception, which works on
\* the parsed request object and mutates it in place
InnerSystemPromptInterception(body, cfg) ==
    LET blocks == body.system.blocks
        skip(tasks) == InnerResult(FALSE, FALSE, body, tasks)
    IN
    IF cfg = ConfigStoreError THEN skip(<< >>)
    ELSE IF ~cfg.present \/ ~cfg.isEnabled THEN skip(<< >>)
    ELSE IF body.system.kind # "array" THEN skip(<< >>)
    ELSE IF ~isSystemMessageWithText(blocks, 1) THEN skip(<< >>)
    ELSE IF NotMainAgentRequest(blocks[1].text) THEN skip(<< >>)
    ELSE IF ~isSystemMessageWithText(blocks, 2) THEN skip(<< >>)
    ELSE
    LET originalPrompt == blocks[2].text
        promptTask == <<Task(LAST_SEEN_PROMPT, TRUE, originalPrompt)>>
        envBlock == ExtractEnvBlock(originalPrompt)
        promptTemplate == PromptTemplateOf(cfg)
        newPrompt == Replace(promptTemplate, ENV_PLACEHOLDER, envBlock)
        rewritten == [body EXCEPT !.system.blocks[2].text = newPrompt]
    IN
    IF promptTemplate = << >> THEN skip(promptTask)
    ELSE IF ~cfg.toolsEnabled /\ body.tools.kind = "null"
         THEN InnerResult(FALSE, FALSE, rewritten, promptTask)
    ELSE IF ~cfg.toolsEnabled /\ body.tools.kind = "array"
         THEN InnerResult(TRUE, TRUE, [rewritten EXCEPT !.tools = AbsentTools], promptTask)
    ELSE InnerResult(TRUE, FALSE, rewritten, promptTask)

\* the optional flags of AgentInterceptResult: "undefined" when not set
FlagOf(b) == IF b THEN "true" ELSE "false"

AgentInterceptResult(modifiedBody, agentUsed, originalModel, appliedModel, spm, tr) ==
    [modifiedBody |-> modifiedBody, agentUsed |-> agentUsed,
     originalModel |-> originalModel, appliedModel |-> appliedModel,
     systemPromptModified |-> spm, toolsRemoved |-> tr]

NoAgentResult == AgentInterceptResult(NoBuffer, Null, Null, Null, "undefined", "undefined")

\* a resolution that never looks at the stored preference
PreferredModel_IgnoresPreference(preference, agentModel) == agentModel

\* preference?.model || detectedAgent.model
PreferredModel(preference, agentModel) ==
    IF preference # Null THEN preference ELSE agentModel

\* the calls of the agent interceptor that can reject or throw
AgentFailures ==
    {"none", "registerWorkspace", "getAgents", "getAgentPreference",
     "getInterceptorConfig"}

\* an exception raised inside the try block of interceptAndModifyRequest
AgentThrown(registered) ==
    [status |-> "throw", result |-> NoAgentResult, sched |-> << >>,
     registered |-> registered, caught |-> FALSE, inner |-> 0]

AgentReturn(result, tasks, registered) ==
    [status |-> "ok", result |-> result, sched |-> tasks, registered |-> registered,
     caught |-> FALSE, inner |-> 0]

\* return paths that re-encode the parsed body whatever the inner result
ReturnWithModelKept_AlwaysEncodes(buf, interceptResult, agentUsed, originalModel, registered) ==
    AgentReturn(
        AgentInterceptResult(Encode(interceptResult.body), agentUsed, originalModel,
            originalModel, "undefined", "undefined"),
        interceptResult.sched, registered)

\* the return paths that keep the model: the body is re-encoded only when the
\* inner interception reports a change (interceptResult)
ReturnWithModelKept(buf, interceptResult, agentUsed, originalModel, registered) ==
    IF interceptResult.modified \/ interceptResult.toolsRemoved
    THEN AgentReturn(
            AgentInterceptResult(Encode(interceptResult.body), agentUsed, originalModel,
                originalModel, FlagOf(interceptResult.modified),
                FlagOf(interceptResult.toolsRemoved)),
            interceptResult.sched, registered)
    ELSE AgentReturn(
            AgentInterceptResult(buf, agentUsed, originalModel, originalModel,
                "undefined", "undefined"),
            interceptResult.sched, registered)

\* the return path that applies the preferred model: always re-encoded
ReturnWithModelApplied(interceptResult, agentUsed, originalModel, preferredModel, registered) ==
    AgentReturn(
        AgentInterceptResult(Encode(interceptResult.body), agentUsed, originalModel,
            preferredModel, FlagOf(interceptResult.modified),
            FlagOf(interceptResult.toolsRemoved)),
        interceptResult.sched, registered)

\* a return that follows one run of the interceptor's own
\* applySystemPromptInterception
InnerRan(returned) == [returned EXCEPT !.inner = 1]

\* the three return paths that follow agent detection
AfterDetection(buf, body, cfg, agentUsed, originalModel, preferredModel, registered) ==
    IF preferredModel = originalModel
    THEN InnerRan(ReturnWithModelKept(buf, InnerSystemPromptInterception(body, cfg),
                                      agentUsed, originalModel, registered))
    ELSE InnerRan(ReturnWithModelApplied(
            InnerSystemPromptInterception([body EXCEPT !.model = preferredModel], cfg),
            agentUsed, originalModel, preferredModel, registered))

\* the try block of interceptAndModifyRequest; `fail` names the collaborator
\* call that fails during this invocation, `registered` the workspaces
\* registered so far
AgentInterceptionTry(buf, cfg, registered, fail) ==
    IF ~buf.valid THEN AgentThrown(registered)
    ELSE
    LET body == buf.body
        originalModel == body.model
        sp == extractSystemPrompt(body)
        systemPrompt == sp.text
        toRegister == {WorkspaceOf(d) : d \in extractAgentDirectories(systemPrompt)}
                          \cap ExistingWorkspaces
        registered2 == registered \cup toRegister
        agents == getAgents(registered2)
        found == FindAgent(agents, systemPrompt)
    IN
    IF ~sp.found \/ systemPrompt = << >>
    THEN AgentReturn(
            AgentInterceptResult(buf, Null, originalModel, originalModel,
                "undefined", "undefined"),
            << >>, registered)
    ELSE IF fail = "registerWorkspace" /\ toRegister # {} THEN AgentThrown(registered)
    ELSE IF fail = "getAgents" THEN AgentThrown(registered2)
    ELSE IF found = 0
         THEN AfterDetection(buf, body,
                 getInterceptorConfig(cfg, fail = "getInterceptorConfig"),
                 Null, originalModel, originalModel, registered2)
    ELSE IF fail = "getAgentPreference" THEN AgentThrown(registered2)
    ELSE LET agent == agents[found]
             preference == getAgentPreference(agent.id)
             preferredModel == PreferredModel(preference, agent.model)
         IN  AfterDetection(buf, body,
                 getInterceptorConfig(cfg, fail = "getInterceptorConfig"),
                 agent.id, originalModel, preferredModel, registered2)

\* a stage without its catch clause
AgentCatch_Rethrows(buf, tried) == tried

\* the catch clause of interceptAndModifyRequest
AgentCatch(buf, tried) ==
    IF tried.status = "throw"
    THEN [AgentReturn(
             AgentInterceptResult(buf, Null, Null, Null, "undefined", "undefined"),
             tried.sched, tried.registered) EXCEPT !.caught = TRUE]
    ELSE tried

\* interceptAndModifyRequest: the null-buffer early return, the try block and
\* the catch clause, which returns the buffer it was given and null metadata
interceptAndModifyRequest(buf, cfg, registered, fail) ==
    IF ~buf.present
    THEN AgentReturn(NoAgentResult, << >>, registered)
    ELSE AgentCatch(buf, AgentInterceptionTry(buf, cfg, registered, fail))

\* ------------------------------------------------------------------------
\* Inputs of the orchestrator model
\* ------------------------------------------------------------------------

ProviderName == "anthropic"

\* first system blocks: main agent, main agent that also carries the
\* sub-agent signature, sub-agent, neither
FirstSystemTexts ==
    { <<MAIN_AGENT_SIGNATURE>>, <<MAIN_AGENT_SIGNATURE, SUB_AGENT_SIGNATURE>>,
      <<SUB_AGENT_SIGNATURE>>, <<"hello">> }

SomeTools == <<"Bash", "Read", "Edit">>

\* replacement prompts the configuration API can store (the empty string is
\* accepted by it)
ReplacementPrompts ==
    { << >>, <<"Hi.\n", ENV_PLACEHOLDER>>, <<"T", ENV_PLACEHOLDER, GIT_PLACEHOLDER>> }

Message(role, content) == [role |-> role, content |-> content]

\* a main-agent style body: two system blocks
MainAgentBody(first, prompt, tools) ==
    [model |-> "base-v1",
     system |-> ArrayContent(<<TextBlock(first), TextBlock(prompt)>>),
     messages |-> << >>,
     tools |-> tools]

PromptWithEnvAndGit == <<"intro", ENV_OPEN, "X", ENV_CLOSE, GIT_STATUS_MARKER, "clean">>
PromptWithAgentSignature == <<"sig7", ENV_OPEN, "X", ENV_CLOSE>>

\* decoded request bodies a client can send
InboundBodies ==
    { MainAgentBody(f, PromptWithEnvAndGit, ToolsArray(SomeTools)) :
        f \in FirstSystemTexts }
    \cup
    { MainAgentBody(f, PromptWithAgentSignature, AbsentTools) : f \in FirstSystemTexts }
    \cup
    { MainAgentBody(<<MAIN_AGENT_SIGNATURE, "sig42">>, PromptWithEnvAndGit,
                    ToolsArray(SomeTools)),
      EmptyBody,
      [model |-> "base-v1", system |-> StringContent(<<"you are", "sig42", "ok">>),
       messages |-> << >>, tools |-> ToolsArray(SomeTools)],
      [model |-> Null, system |-> AbsentContent,
       messages |-> <<Message("user", StringContent(
                        <<CONTENTS_OF, "/ws1", CLAUDE_MD, NEWLINE, "sigws">>))>>,
       tools |-> AbsentTools],
      [model |-> "base-v1",
       system |-> ArrayContent(<<TextBlock(<<MAIN_AGENT_SIGNATURE>>)>>),
       messages |-> << >>, tools |-> ToolsArray(SomeTools)],
      MainAgentBody(<<MAIN_AGENT_SIGNATURE>>, PromptWithEnvAndGit, NullTools) }

\* buffers prepareRequestBody can return: none (a request without a body),
\* bytes that are not JSON, and JSON bodies in the sender's layout or already
\* in JSON.stringify layout
InboundBuffers ==
    {NoBuffer, GarbageBuffer}
    \cup {RawBuffer(b) : b \in InboundBodies}
    \cup {Encode(b) : b \in {x \in InboundBodies : x.system.kind # "array"}}

\* records setSystemPromptConfig can store
StorableConfigs ==
    {Config(FALSE, <<"Hi.\n", ENV_PLACEHOLDER>>, TRUE)}
    \cup {Config(TRUE, tpl, te) : tpl \in ReplacementPrompts, te \in BOOLEAN}

AccountName == <<"acct1", "acct2", "acct3", "acct4", "acct5">>
AccountNames == {AccountName[k] : k \in 1..MaxAccounts}

\* ordered candidate lists the selection strategy can return
AccountLists ==
    { l \in UNION {[1..n -> AccountNames] : n \in 0..MaxAccounts} :
        \A a, b \in 1..Len(l) : a # b => l[a] # l[b] }

\* ------------------------------------------------------------------------
\* State
\* ------------------------------------------------------------------------
VARIABLES
    pc,                     \* position of handleProxy for the current request
    pathAccepted,           \* whether the provider handles the path
    requestBodyBuffer,      \* buffer returned by prepareRequestBody
    promptInterceptedBody,  \* result of the first stage (NoBuffer for null)
    agentStageInput,        \* buffer the second stage was called with
    agentResult,            \* result record of the second stage
    finalBodyBuffer,        \* buffer handed to the forward calls
    accounts,               \* list returned by selectAccountsForRequest
    i,                      \* loop index of the account loop
    attempts,               \* proxyWithAccount calls made, in order
    unauthForwards,         \* proxyUnauthenticated calls made, in order
    outcome,                \* what handleProxy returned or threw
    steps,                  \* calls handleProxy has made, in order
    interceptorConfig,      \* stored "system_prompt" interceptor record
    immediateQueue,         \* callbacks handed to setImmediate, oldest first
    registeredWorkspaces,   \* workspaces registered with the agent registry
    requestCount,           \* requests handled so far
    caught,                 \* functions whose catch clause ran for this request
    usageWorkerInstance,    \* module handle of the usage worker (0 for null)
    workers,                \* every Worker constructed so far, by number
    timers,                 \* pending setTimeout callbacks, oldest first
    workerCalls,            \* calls of the two worker functions, in order
    now,                    \* clock of the timers, in ticks
    kvWrites,               \* setSystemKV calls made since the request arrived
    firstRewrite,           \* input and output of the first rewrite by stage 1
    innerCalls,             \* runs of the agent stage's own prompt interception
    kvFailed,               \* whether a last-seen update of this request failed
    storeFaulty             \* whether the key-value store can throw

requestVars ==
    <<pc, pathAccepted, requestBodyBuffer, promptInterceptedBody, agentStageInput,
      agentResult, finalBodyBuffer, accounts, i, attempts, unauthForwards, outcome,
      steps, caught>>
storeVars == <<interceptorConfig, systemKV, immediateQueue, registeredWorkspaces>>
workerVars == <<usageWorkerInstance, workers, timers, workerCalls, now>>
vars == <<requestVars, storeVars, requestCount, agentList, workerVars, kvWrites, firstRewrite, innerCalls, kvFailed, storeFaulty>>

NoOutcome == [kind |-> "none", from |-> "none", attempted |-> 0, provider |-> "none"]
ResponseFrom(who) ==
    [kind |-> "response", from |-> who, attempted |-> 0, provider |-> "none"]
ValidationError ==
    [kind |-> "ValidationError", from |-> "none", attempted |-> 0, provider |-> "none"]
UncaughtError(where) ==
    [kind |-> "UncaughtError", from |-> where, attempted |-> 0, provider |-> "none"]
ProviderError ==
    [kind |-> "ProviderError", from |-> "none", attempted |-> 0, provider |-> "none"]
ServiceUnavailableError(n, provider) ==
    [kind |-> "ServiceUnavailableError", from |-> "none", attempted |-> n,
     provider |-> provider]

NoValue == [set |-> FALSE, value |-> << >>]

\* a call of the first stage that returned a buffer: what it was given, the
\* configuration it read and what it returned
NoRewrite == [set |-> FALSE, input |-> NoBuffer, cfg |-> NoConfig, out |-> NoBuffer]
Rewrite(input, cfg, out) == [set |-> TRUE, input |-> input, cfg |-> cfg, out |-> out]
Stored(v) == [set |-> TRUE, value |-> v]

RequestStart ==
    /\ pc = "ValidatePath"
    /\ pathAccepted = "unknown"
    /\ requestBodyBuffer = NoBuffer
    /\ promptInterceptedBody = NoBuffer
    /\ agentStageInput = NoBuffer
    /\ agentResult = NoAgentResult
    /\ finalBodyBuffer = NoBuffer
    /\ accounts = << >>
    /\ i = 0
    /\ attempts = << >>
    /\ unauthForwards = << >>
    /\ outcome = NoOutcome
    /\ steps = << >>
    /\ caught = {}

\* no worker has been constructed, no timer is pending, nothing was written
WorkerStart ==
    /\ usageWorkerInstance = 0
    /\ workers = << >>
    /\ timers = << >>
    /\ workerCalls = << >>
    /\ now = 0
    /\ kvWrites = << >>
    /\ firstRewrite = NoRewrite
    /\ innerCalls = 0
    /\ kvFailed = FALSE

\* the database behind the key-value store answers every call
StoreHealthy == storeFaulty = FALSE

Init ==
    /\ RequestStart
    /\ interceptorConfig = NoConfig
    /\ systemKV = [k \in {LAST_SEEN_PROMPT, LAST_SEEN_TOOLS} |-> NoValue]
    /\ immediateQueue = << >>
    /\ registeredWorkspaces = {}
    /\ requestCount = 0
    /\ agentList = GlobalAgents
    /\ WorkerStart
    /\ StoreHealthy

\* ------------------------------------------------------------------------
\* handleProxy, one action per step
\* ------------------------------------------------------------------------

\* a validation whose result is ignored
PathRejected_Ignored(canHandle) == FALSE

\* validateProviderPath throws when the provider cannot handle the path
PathRejected(canHandle) == ~canHandle

\* 1. validateProviderPath(ctx.provider, url.pathname)
ValidatePath ==
    /\ pc = "ValidatePath"
    /\ requestCount < MaxRequests
    /\ \E canHandle \in BOOLEAN :
         /\ pathAccepted' = IF canHandle THEN "yes" ELSE "no"
         /\ pc' = IF PathRejected(canHandle) THEN "Done" ELSE "BufferBody"
         /\ outcome' = IF PathRejected(canHandle) THEN ValidationError ELSE outcome
    /\ steps' = Append(steps, "validateProviderPath")
    /\ requestCount' = requestCount + 1
    /\ UNCHANGED <<requestBodyBuffer, promptInterceptedBody, agentStageInput,
                   agentResult, finalBodyBuffer, accounts, i, attempts,
                   unauthForwards, storeVars>>
    /\ UNCHANGED <<caught, agentList, workerVars, kvWrites, firstRewrite, innerCalls, kvFailed, storeFaulty>>

\* 2. await prepareRequestBody(req)
BufferBody ==
    /\ pc = "BufferBody"
    /\ \E buf \in InboundBuffers : requestBodyBuffer' = buf
    /\ steps' = Append(steps, "prepareRequestBody")
    /\ pc' = "InterceptPrompt"
    /\ UNCHANGED <<pathAccepted, promptInterceptedBody, agentStageInput, agentResult,
                   finalBodyBuffer, accounts, i, attempts, unauthForwards, outcome,
                   storeVars, requestCount>>
    /\ UNCHANGED <<caught, agentList, workerVars, kvWrites, firstRewrite, innerCalls, kvFailed, storeFaulty>>

\* 3. await applySystemPromptInterception(requestBodyBuffer, ctx.dbOps)
InterceptPrompt ==
    /\ pc = "InterceptPrompt"
    /\ \E storeFails \in BOOLEAN :
       \E r \in {applySystemPromptInterception(requestBodyBuffer,
                      getInterceptorConfig(interceptorConfig, storeFails))} :
           /\ promptInterceptedBody' = r.out
           /\ caught' = IF r.caught THEN caught \cup {"applySystemPromptInterception"}
                        ELSE caught
           /\ immediateQueue' = immediateQueue \o r.sched
           /\ firstRewrite' = IF firstRewrite = NoRewrite /\ r.out.present
                               THEN Rewrite(requestBodyBuffer, interceptorConfig, r.out)
                               ELSE firstRewrite
           /\ pc' = IF r.status = "throw" THEN "Done" ELSE "InterceptAgent"
           /\ outcome' = IF r.status = "throw"
                         THEN UncaughtError("applySystemPromptInterception")
                         ELSE outcome
    /\ steps' = Append(steps, "applySystemPromptInterception")
    /\ UNCHANGED <<pathAccepted, requestBodyBuffer, agentStageInput, agentResult,
                   finalBodyBuffer, accounts, i, attempts, unauthForwards,
                   interceptorConfig, systemKV, registeredWorkspaces, requestCount>>
    /\ UNCHANGED <<agentList, workerVars, kvWrites, innerCalls, kvFailed, storeFaulty>>

\* a second stage that is always handed the inbound buffer
AgentStageInput_Original(promptBody, original) == original

\* promptInterceptedBody || requestBodyBuffer
AgentStageInput(promptBody, original) ==
    IF promptBody.present THEN promptBody ELSE original

\* modifiedBody || promptInterceptedBody || requestBodyBuffer
FinalBody(modifiedBody, promptBody, original) ==
    IF modifiedBody.present THEN modifiedBody
    ELSE IF promptBody.present THEN promptBody
    ELSE original

\* 4. await interceptAndModifyRequest(promptInterceptedBody || requestBodyBuffer,
\* ctx.dbOps), then the computation of finalBodyBuffer
InterceptAgent ==
    /\ pc = "InterceptAgent"
    /\ \E fail \in AgentFailures :
       \E input \in {AgentStageInput(promptInterceptedBody, requestBodyBuffer)} :
       \E r \in {interceptAndModifyRequest(input, interceptorConfig,
                                            registeredWorkspaces, fail)} :
             /\ agentStageInput' = input
             /\ agentResult' = r.result
             /\ caught' = IF r.caught THEN caught \cup {"interceptAndModifyRequest"}
                          ELSE caught
             /\ pc' = IF r.status = "throw" THEN "Done" ELSE "SelectAccounts"
             /\ outcome' = IF r.status = "throw"
                           THEN UncaughtError("interceptAndModifyRequest")
                           ELSE outcome
             /\ immediateQueue' = immediateQueue \o r.sched
             /\ registeredWorkspaces' = r.registered
             /\ innerCalls' = r.inner
             /\ finalBodyBuffer' =
                    FinalBody(r.result.modifiedBody, promptInterceptedBody,
                              requestBodyBuffer)
    /\ steps' = Append(steps, "interceptAndModifyRequest")
    /\ UNCHANGED <<pathAccepted, requestBodyBuffer, promptInterceptedBody, accounts, i,
                   attempts, unauthForwards, interceptorConfig, systemKV, requestCount>>
    /\ UNCHANGED <<agentList, workerVars, kvWrites, firstRewrite, kvFailed, storeFaulty>>

\* a handler without the empty-list branch
NoAccounts_Never(list) == FALSE

\* accounts.length === 0
NoAccounts(list) == Len(list) = 0

\* 5-6. createRequestMetadata and selectAccountsForRequest(requestMeta, ctx)
SelectAccounts ==
    /\ pc = "SelectAccounts"
    /\ \E list \in AccountLists :
         /\ accounts' = list
         /\ pc' = IF NoAccounts(list) THEN "Unauthenticated" ELSE "TryAccounts"
    /\ i' = 0
    /\ steps' = Append(steps, "selectAccountsForRequest")
    /\ UNCHANGED <<pathAccepted, requestBodyBuffer, promptInterceptedBody,
                   agentStageInput, agentResult, finalBodyBuffer, attempts,
                   unauthForwards, outcome, storeVars, requestCount>>
    /\ UNCHANGED <<caught, agentList, workerVars, kvWrites, firstRewrite, innerCalls, kvFailed, storeFaulty>>

\* 7. accounts.length === 0: return proxyUnauthenticated(...), which returns
\* the provider's response or throws a provider error
ProxyUnauthenticated ==
    /\ pc = "Unauthenticated"
    /\ \E ok \in BOOLEAN :
         LET result == IF ok THEN ResponseFrom("unauthenticated") ELSE ProviderError
         IN  /\ unauthForwards' =
                    Append(unauthForwards, [body |-> finalBodyBuffer, result |-> result])
             /\ outcome' = result
    /\ steps' = Append(steps, "proxyUnauthenticated")
    /\ pc' = "Done"
    /\ UNCHANGED <<pathAccepted, requestBodyBuffer, promptInterceptedBody,
                   agentStageInput, agentResult, finalBodyBuffer, accounts, i, attempts,
                   storeVars, requestCount>>
    /\ UNCHANGED <<caught, agentList, workerVars, kvWrites, firstRewrite, innerCalls, kvFailed, storeFaulty>>

\* a loop that stops one account short
LoopContinues_OffByOne(idx, list) == idx < Len(list) - 1

\* the loop condition `i < accounts.length`
LoopContinues(idx, list) == idx < Len(list)

\* accounts[i], with the 0-based index of the loop
AccountAt(list, idx) == list[idx + 1]

\* a loop that keeps going after a response
ReturnsResponse_Never(response) == FALSE

\* `if (response) return response`
ReturnsResponse(response) == response

\* 9. one iteration of the account loop: await proxyWithAccount(accounts[i]),
\* which returns a response or null
TryAccount ==
    /\ pc = "TryAccounts"
    /\ LoopContinues(i, accounts)
    /\ \E response \in BOOLEAN :
         /\ attempts' = Append(attempts,
                           [account |-> AccountAt(accounts, i), index |-> i,
                            body |-> finalBodyBuffer, responded |-> response])
         /\ IF ReturnsResponse(response)
            THEN /\ outcome' = ResponseFrom(AccountAt(accounts, i))
                 /\ pc' = "Done"
                 /\ i' = i
            ELSE /\ outcome' = outcome
                 /\ pc' = pc
                 /\ i' = i + 1
    /\ steps' = Append(steps, "proxyWithAccount")
    /\ UNCHANGED <<pathAccepted, requestBodyBuffer, promptInterceptedBody,
                   agentStageInput, agentResult, finalBodyBuffer, accounts,
                   unauthForwards, storeVars, requestCount>>
    /\ UNCHANGED <<caught, agentList, workerVars, kvWrites, firstRewrite, innerCalls, kvFailed, storeFaulty>>

\* 10. the loop ended without a response: throw ServiceUnavailableError
AllAccountsFailed ==
    /\ pc = "TryAccounts"
    /\ ~LoopContinues(i, accounts)
    /\ outcome' = ServiceUnavailableError(Len(accounts), ProviderName)
    /\ pc' = "Done"
    /\ UNCHANGED <<pathAccepted, requestBodyBuffer, promptInterceptedBody,
                   agentStageInput, agentResult, finalBodyBuffer, accounts, i, attempts,
                   unauthForwards, steps, storeVars, requestCount>>
    /\ UNCHANGED <<caught, agentList, workerVars, kvWrites, firstRewrite, innerCalls, kvFailed, storeFaulty>>

\* the server hands the next inbound request to handleProxy; its arrival is
\* an I/O event, which the event loop delivers only after the setImmediate
\* callbacks queued before it have run
NewRequest ==
    /\ pc = "Done"
    /\ immediateQueue = << >>
    /\ requestCount < MaxRequests
    /\ pc' = "ValidatePath"
    /\ pathAccepted' = "unknown"
    /\ requestBodyBuffer' = NoBuffer
    /\ promptInterceptedBody' = NoBuffer
    /\ agentStageInput' = NoBuffer
    /\ agentResult' = NoAgentResult
    /\ finalBodyBuffer' = NoBuffer
    /\ accounts' = << >>
    /\ i' = 0
    /\ attempts' = << >>
    /\ unauthForwards' = << >>
    /\ outcome' = NoOutcome
    /\ steps' = << >>
    /\ caught' = {}
    /\ kvWrites' = << >>
    /\ innerCalls' = 0
    /\ kvFailed' = FALSE
    /\ UNCHANGED <<storeVars, requestCount, agentList, workerVars, firstRewrite, storeFaulty>>

\* ------------------------------------------------------------------------
\* Work that runs between the steps of a request
\* ------------------------------------------------------------------------

\* handleProxy can be suspended only at a real wait: before the request
\* arrives, while the body is read, during a forward, and after it has
\* returned.  Stages 3 to 6 run without giving the event loop a turn.
AtSuspensionPoint ==
    pc \in {"ValidatePath", "BufferBody", "TryAccounts", "Unauthenticated", "Done"}

\* the compare-before-write of _updateLastSeenPrompt / _updateLastSeenTools:
\* an undefined value is never equal to what getSystemKV returned
ValueChanged(kv, task) == ~task.defined \/ kv[task.key] # Stored(task.value)

\* the store after the callback has run
UpdateLastSeen(kv, task, storesNull) ==
    IF ~ValueChanged(kv, task) THEN kv
    ELSE IF task.defined THEN [kv EXCEPT ![task.key] = Stored(task.value)]
    ELSE IF storesNull THEN [kv EXCEPT ![task.key] = NoValue]
    ELSE kv

\* the setSystemKV call the callback makes, if it makes one
SetSystemKVCalls(kv, task) ==
    IF ValueChanged(kv, task)
    THEN <<[key |-> task.key, defined |-> task.defined, value |-> task.value,
            before |-> kv[task.key]]>>
    ELSE << >>

\* a callback that would be run again after the store has thrown
AfterCallback_Retries(queue, storeThrows) ==
    IF storeThrows THEN Append(Tail(queue), Head(queue)) ELSE Tail(queue)

\* the setImmediate queue once a callback has run: the callback is gone
\* whether or not its try block threw, the catch clause only logs
AfterCallback(queue, storeThrows) == Tail(queue)

\* _updateLastSeenPrompt / _updateLastSeenTools run from the setImmediate
\* queue: read the stored value, write when the new one differs.  A callback
\* whose value is undefined by now passes undefined to setSystemKV; the
\* store then either rejects the statement or stores NULL.  With a faulty
\* store getSystemKV or setSystemKV may also throw (storeThrows): the catch
\* clause logs the error and the store is left as it was.
RunImmediate ==
    /\ AtSuspensionPoint
    /\ immediateQueue # << >>
    /\ \E task \in {Head(immediateQueue)} : \E storesNull \in BOOLEAN :
       \E storeThrows \in {FALSE, storeFaulty} :
          /\ systemKV' = IF storeThrows THEN systemKV
                         ELSE UpdateLastSeen(systemKV, task, storesNull)
          /\ kvWrites' = IF storeThrows THEN kvWrites
                         ELSE kvWrites \o SetSystemKVCalls(systemKV, task)
          /\ kvFailed' = (kvFailed \/ storeThrows)
          /\ immediateQueue' = AfterCallback(immediateQueue, storeThrows)
    /\ UNCHANGED <<requestVars, interceptorConfig, registeredWorkspaces, requestCount>>
    /\ UNCHANGED <<agentList, workerVars, firstRewrite, innerCalls, storeFaulty>>

\* setSystemPromptConfig of the configuration API, with a body that passes
\* its validation
SetConfig ==
    /\ pc = "ValidatePath"
    /\ requestCount < MaxRequests
    /\ \E c \in StorableConfigs :
         /\ c # interceptorConfig
         /\ interceptorConfig' = c
    /\ UNCHANGED <<requestVars, systemKV, immediateQueue, registeredWorkspaces,
                   requestCount>>
    /\ UNCHANGED <<agentList, workerVars, kvWrites, firstRewrite, innerCalls, kvFailed, storeFaulty>>

\* resetSystemPromptConfig of the configuration API
ResetConfig ==
    /\ pc = "ValidatePath"
    /\ requestCount < MaxRequests
    /\ interceptorConfig.present
    /\ interceptorConfig' = NoConfig
    /\ UNCHANGED <<requestVars, systemKV, immediateQueue, registeredWorkspaces,
                   requestCount>>
    /\ UNCHANGED <<agentList, workerVars, kvWrites, firstRewrite, innerCalls, kvFailed, storeFaulty>>

Next ==
    \/ ValidatePath
    \/ BufferBody
    \/ InterceptPrompt
    \/ InterceptAgent
    \/ SelectAccounts
    \/ ProxyUnauthenticated
    \/ TryAccount
    \/ AllAccountsFailed
    \/ NewRequest
    \/ RunImmediate
    \/ SetConfig
    \/ ResetConfig

Spec == Init /\ [][Next]_vars

\* ------------------------------------------------------------------------
\* One request under a stored configuration while the key-value store may
\* throw on any call of a last-seen update
\* ------------------------------------------------------------------------

InitStore ==
    /\ RequestStart
    /\ interceptorConfig \in StorableConfigs
    /\ systemKV = [k \in {LAST_SEEN_PROMPT, LAST_SEEN_TOOLS} |-> NoValue]
    /\ immediateQueue = << >>
    /\ registeredWorkspaces = {}
    /\ requestCount = 0
    /\ agentList = GlobalAgents
    /\ WorkerStart
    /\ storeFaulty = TRUE

NextStore ==
    \/ ValidatePath
    \/ BufferBody
    \/ InterceptPrompt
    \/ InterceptAgent
    \/ SelectAccounts
    \/ ProxyUnauthenticated
    \/ TryAccount
    \/ AllAccountsFailed
    \/ RunImmediate

SpecStore == InitStore /\ [][NextStore]_vars

\* ------------------------------------------------------------------------
\* The two interceptor stages on a wide range of prompts and templates:
\* handleProxy has read the body of a main-agent request and runs both
\* stages on it under an enabled configuration
\* ------------------------------------------------------------------------

TextsUpTo(alphabet, n) == UNION {[1..k -> alphabet] : k \in 0..n}

PromptAlphabet == {ENV_OPEN, ENV_CLOSE, GIT_STATUS_MARKER, "X", DOLLAR, GIT_PLACEHOLDER}
TemplateAlphabet == {"Hi.\n", ENV_PLACEHOLDER, GIT_PLACEHOLDER}

InitInterceptors ==
    /\ pc = "InterceptPrompt"
    /\ pathAccepted = "yes"
    /\ requestBodyBuffer \in
          { RawBuffer(MainAgentBody(<<MAIN_AGENT_SIGNATURE>>, p, ToolsArray(SomeTools))) :
              p \in TextsUpTo(PromptAlphabet, MaxPromptLen) }
    /\ promptInterceptedBody = NoBuffer
    /\ agentStageInput = NoBuffer
    /\ agentResult = NoAgentResult
    /\ finalBodyBuffer = NoBuffer
    /\ accounts = << >>
    /\ i = 0
    /\ attempts = << >>
    /\ unauthForwards = << >>
    /\ outcome = NoOutcome
    /\ steps = <<"validateProviderPath", "prepareRequestBody">>
    /\ interceptorConfig \in
          { Config(TRUE, tpl, te) :
              tpl \in TextsUpTo(TemplateAlphabet, MaxTemplateLen), te \in BOOLEAN }
    /\ systemKV = [k \in {LAST_SEEN_PROMPT, LAST_SEEN_TOOLS} |-> NoValue]
    /\ immediateQueue = << >>
    /\ registeredWorkspaces = {}
    /\ requestCount = 1
    /\ caught = {}
    /\ agentList = GlobalAgents
    /\ WorkerStart
    /\ StoreHealthy

NextInterceptors ==
    \/ InterceptPrompt
    \/ InterceptAgent

SpecInterceptors == InitInterceptors /\ [][NextInterceptors]_vars

\* ------------------------------------------------------------------------
\* The agent interceptor on a wide range of agent directories and system
\* texts: handleProxy has run the first stage, which returned null, and
\* calls the agent stage
\* ------------------------------------------------------------------------

SignatureAlphabet == {SPACE, "a", "b"}

\* own models of the two agents; Agent42 also has a stored preference
AgentModels == [Agent42 |-> "base-v1", Agent7 |-> "slow-v3"]

\* directories of zero, one or two agents, in either order, with any
\* signatures (blank ones included)
AgentLists ==
    LET sigs == TextsUpTo(SignatureAlphabet, MaxSignatureLen)
        ids == DOMAIN AgentModels
    IN  {<< >>}
        \cup { <<Agent(a, sa, AgentModels[a])>> : a \in ids, sa \in sigs }
        \cup UNION { { <<Agent(a, sa, AgentModels[a]), Agent(b, sb, AgentModels[b])>> :
                          b \in ids \ {a}, sa \in sigs, sb \in sigs } : a \in ids }

AgentRequestBuffers ==
    { RawBuffer([model |-> m, system |-> StringContent(t), messages |-> << >>,
                 tools |-> AbsentTools]) :
        m \in {Null, "base-v1", "fast-v2", "slow-v3"},
        t \in TextsUpTo(SignatureAlphabet, MaxSystemLen) }
    \cup {GarbageBuffer}

InitAgents ==
    /\ pc = "InterceptAgent"
    /\ pathAccepted = "yes"
    /\ requestBodyBuffer \in AgentRequestBuffers
    /\ promptInterceptedBody = NoBuffer
    /\ agentStageInput = NoBuffer
    /\ agentResult = NoAgentResult
    /\ finalBodyBuffer = NoBuffer
    /\ accounts = << >>
    /\ i = 0
    /\ attempts = << >>
    /\ unauthForwards = << >>
    /\ outcome = NoOutcome
    /\ steps = <<"validateProviderPath", "prepareRequestBody",
                 "applySystemPromptInterception">>
    /\ caught = IF requestBodyBuffer.valid THEN {}
                ELSE {"applySystemPromptInterception"}
    /\ interceptorConfig = NoConfig
    /\ systemKV = [k \in {LAST_SEEN_PROMPT, LAST_SEEN_TOOLS} |-> NoValue]
    /\ immediateQueue = << >>
    /\ registeredWorkspaces = {}
    /\ requestCount = 1
    /\ agentList \in AgentLists
    /\ WorkerStart
    /\ StoreHealthy

NextAgents == InterceptAgent

SpecAgents == InitAgents /\ [][NextAgents]_vars

\* ------------------------------------------------------------------------
\* The agent interceptor on requests that carry their system text in the
\* messages array
\* ------------------------------------------------------------------------

MessageContents ==
    { StringContent(<<"hello">>), StringContent(<<"sig7">>),
      StringContent(<<CONTENTS_OF, "/ws1", CLAUDE_MD, NEWLINE, "sig7">>),
      ArrayContent(<<TextBlock(<<"sig42", "more">>), OtherBlock>>) }

MessageLists ==
    UNION { [1..n -> {Message(r, c) : r \in {"system", "user", "assistant"},
                                      c \in MessageContents}] : n \in 0..MaxMessages }

MessageRequestBuffers ==
    { RawBuffer([model |-> m, system |-> sys, messages |-> ms, tools |-> AbsentTools]) :
        m \in {Null, "slow-v3"},
        sys \in {AbsentContent, StringContent(<<"hello">>)},
        ms \in MessageLists }

InitMessages ==
    /\ pc = "InterceptAgent"
    /\ pathAccepted = "yes"
    /\ requestBodyBuffer \in MessageRequestBuffers
    /\ promptInterceptedBody = NoBuffer
    /\ agentStageInput = NoBuffer
    /\ agentResult = NoAgentResult
    /\ finalBodyBuffer = NoBuffer
    /\ accounts = << >>
    /\ i = 0
    /\ attempts = << >>
    /\ unauthForwards = << >>
    /\ outcome = NoOutcome
    /\ steps = <<"validateProviderPath", "prepareRequestBody",
                 "applySystemPromptInterception">>
    /\ caught = {}
    /\ interceptorConfig = NoConfig
    /\ systemKV = [k \in {LAST_SEEN_PROMPT, LAST_SEEN_TOOLS} |-> NoValue]
    /\ immediateQueue = << >>
    /\ registeredWorkspaces = {}
    /\ requestCount = 1
    /\ agentList = GlobalAgents
    /\ WorkerStart
    /\ StoreHealthy

NextMessages == InterceptAgent

SpecMessages == InitMessages /\ [][NextMessages]_vars

\* ------------------------------------------------------------------------
\* The usage worker: getUsageWorker, terminateUsageWorker and the timer that
\* terminateUsageWorker sets.  Callers outside this module call the two
\* functions in any order and at any time.
\* ------------------------------------------------------------------------
ShutdownMsg(t) == [type |-> "shutdown", at |-> t]

\* new Worker(...), unref(), onmessage = handler
NewWorker(t) ==
    [terminated |-> FALSE, unref |-> TRUE, onmessage |-> 1, inbox |-> << >>,
     createdAt |-> t, terminatedAt |-> 0]

getUsageWorker_AlwaysNew(handle, ws, t) ==
    [instance |-> Len(ws) + 1, workers |-> Append(ws, NewWorker(t))]

\* getUsageWorker: the handle and the workers after the call
getUsageWorker(handle, ws, t) ==
    IF handle = 0
    THEN [instance |-> Len(ws) + 1, workers |-> Append(ws, NewWorker(t))]
    ELSE [instance |-> handle, workers |-> ws]

\* terminateUsageWorker: postMessage and setTimeout when the handle is set
terminateUsageWorker(handle, ws, ts, t) ==
    IF handle # 0
    THEN [workers |-> [ws EXCEPT ![handle].inbox = Append(@, ShutdownMsg(t))],
          timers |-> Append(ts, [due |-> t + WORKER_SHUTDOWN_DELAY, setAt |-> t])]
    ELSE [workers |-> ws, timers |-> ts]

\* the callback given to setTimeout: it reads the handle when it runs
ShutdownTimeout(handle, ws, t) ==
    IF handle # 0
    THEN [instance |-> 0,
          workers |-> [ws EXCEPT ![handle].terminated = TRUE,
                                 ![handle].terminatedAt = t]]
    ELSE [instance |-> handle, workers |-> ws]

CallsMade(calls) == Cardinality({k \in 1..Len(calls) : calls[k].op # "timeout"})

GetUsageWorker ==
    /\ CallsMade(workerCalls) < MaxWorkerCalls
    /\ usageWorkerInstance = 0 => Len(workers) < MaxWorkers
    /\ \E r \in {getUsageWorker(usageWorkerInstance, workers, now)} :
          /\ usageWorkerInstance' = r.instance
          /\ workers' = r.workers
          /\ workerCalls' = Append(workerCalls,
                 [op |-> "getUsageWorker", handle |-> usageWorkerInstance,
                  result |-> r.instance, at |-> now])
    /\ UNCHANGED <<timers, now>>
    /\ UNCHANGED <<requestVars, storeVars, requestCount, agentList, kvWrites, firstRewrite, innerCalls, kvFailed, storeFaulty>>

TerminateUsageWorker ==
    /\ CallsMade(workerCalls) < MaxWorkerCalls
    /\ now + WORKER_SHUTDOWN_DELAY <= MaxTime
    /\ \E r \in {terminateUsageWorker(usageWorkerInstance, workers, timers, now)} :
          /\ workers' = r.workers
          /\ timers' = r.timers
    /\ workerCalls' = Append(workerCalls,
           [op |-> "terminateUsageWorker", handle |-> usageWorkerInstance,
            result |-> 0, at |-> now])
    /\ UNCHANGED <<usageWorkerInstance, now>>
    /\ UNCHANGED <<requestVars, storeVars, requestCount, agentList, kvWrites, firstRewrite, innerCalls, kvFailed, storeFaulty>>

\* the oldest timer runs once its delay has passed; all timers have the same
\* delay, so the oldest is the first one due
TimerFires ==
    /\ timers # << >>
    /\ Head(timers).due <= now
    /\ \E r \in {ShutdownTimeout(usageWorkerInstance, workers, now)} :
          /\ usageWorkerInstance' = r.instance
          /\ workers' = r.workers
    /\ timers' = Tail(timers)
    /\ workerCalls' = Append(workerCalls,
           [op |-> "timeout", handle |-> usageWorkerInstance,
            result |-> Head(timers).setAt, at |-> now])
    /\ UNCHANGED now
    /\ UNCHANGED <<requestVars, storeVars, requestCount, agentList, kvWrites, firstRewrite, innerCalls, kvFailed, storeFaulty>>

Tick ==
    /\ now < MaxTime
    /\ now' = now + 1
    /\ UNCHANGED <<usageWorkerInstance, workers, timers, workerCalls>>
    /\ UNCHANGED <<requestVars, storeVars, requestCount, agentList, kvWrites, firstRewrite, innerCalls, kvFailed, storeFaulty>>

InitWorker == Init

NextWorker ==
    \/ GetUsageWorker
    \/ TerminateUsageWorker
    \/ TimerFires
    \/ Tick

SpecWorker == InitWorker /\ [][NextWorker]_vars

\* a timer whose delay has passed runs, and time goes on
FairWorker == SpecWorker /\ WF_vars(TimerFires) /\ WF_vars(Tick)

\* ------------------------------------------------------------------------
\* Properties of the orchestrator
\* ------------------------------------------------------------------------

Called(name) == \E k \in 1..Len(steps) : steps[k] = name

\* C1: with a non-empty account list, forward attempts are made in exactly
\* the returned order, each account at most once, never more attempts than
\* accounts, no attempt follows the first attempt that returned a response,
\* and that response is what handleProxy returns.
C1_AttemptsFollowReturnedOrder ==
    accounts # << >> =>
        /\ Len(attempts) <= Len(accounts)
        /\ \A k \in 1..Len(attempts) :
             /\ attempts[k].account = accounts[k]
             /\ attempts[k].index = k - 1
             /\ attempts[k].responded => k = Len(attempts)
             /\ \A j \in 1..Len(attempts) :
                  j # k => attempts[j].account # attempts[k].account
        /\ (Len(attempts) > 0 /\ attempts[Len(attempts)].responded) =>
             /\ pc = "Done"
             /\ outcome = ResponseFrom(accounts[Len(attempts)])
        /\ outcome.kind = "response" =>
             /\ Len(attempts) > 0
             /\ attempts[Len(attempts)].responded

\* three accounts in an order of the strategy's own, two failures, then the
\* response of the third
C1_Witness ==
    /\ accounts = <<"acct2", "acct3", "acct1">>
    /\ Len(attempts) = 3
    /\ ~attempts[1].responded
    /\ ~attempts[2].responded
    /\ attempts[3].responded
    /\ outcome = ResponseFrom("acct1")

\* C2: the service-unavailable error is raised only when the list is
\* non-empty and every account of it was attempted exactly once without a
\* response; it carries the number of accounts attempted and the provider name.
C2_ServiceUnavailableOnlyAfterAllFailed ==
    outcome.kind = "ServiceUnavailableError" =>
        /\ Len(accounts) > 0
        /\ Len(attempts) = Len(accounts)
        /\ \A k \in 1..Len(attempts) :
             /\ attempts[k].account = accounts[k]
             /\ ~attempts[k].responded
        /\ outcome.attempted = Len(attempts)
        /\ outcome.provider = ProviderName
        /\ unauthForwards = << >>

C2_Witness ==
    /\ outcome.kind = "ServiceUnavailableError"
    /\ Len(accounts) = 3
    /\ Len(attempts) = 3

\* C3: with an empty account list the unauthenticated forward is made exactly
\* once, no per-account attempt is made, service-unavailable is never raised,
\* and handleProxy returns what the unauthenticated forward returned.
C3_EmptyListForwardsUnauthenticatedOnce ==
    (Called("selectAccountsForRequest") /\ accounts = << >>) =>
        /\ attempts = << >>
        /\ outcome.kind # "ServiceUnavailableError"
        /\ pc \in {"Unauthenticated", "Done"}
        /\ pc = "Unauthenticated" => (unauthForwards = << >> /\ outcome = NoOutcome)
        /\ pc = "Done" =>
             /\ Len(unauthForwards) = 1
             /\ unauthForwards[1].body = finalBodyBuffer
             /\ outcome = unauthForwards[1].result

C3_Witness ==
    /\ Called("selectAccountsForRequest")
    /\ accounts = << >>
    /\ pc = "Done"
    /\ Len(unauthForwards) = 1
    /\ outcome = ResponseFrom("unauthenticated")

\* C4: when the provider does not accept the path, handleProxy fails with a
\* validation error and nothing else has happened: no body read, no
\* interceptor run, no deferred write scheduled, no account selection, no
\* forward of either kind.
C4_RejectedPathHasNoSideEffect ==
    pathAccepted = "no" =>
        /\ pc = "Done"
        /\ outcome = ValidationError
        /\ steps = <<"validateProviderPath">>
        /\ requestBodyBuffer = NoBuffer
        /\ promptInterceptedBody = NoBuffer
        /\ agentStageInput = NoBuffer
        /\ agentResult = NoAgentResult
        /\ immediateQueue = << >>
        /\ accounts = << >>
        /\ attempts = << >>
        /\ unauthForwards = << >>

C4_Witness ==
    /\ pathAccepted = "no"
    /\ outcome = ValidationError
    /\ interceptorConfig.present
    /\ interceptorConfig.isEnabled

PipelineOrder ==
    <<"validateProviderPath", "prepareRequestBody", "applySystemPromptInterception",
      "interceptAndModifyRequest", "selectAccountsForRequest">>

\* C5: the system-prompt stage runs before the agent stage, the agent stage
\* is handed the first stage's buffer when there is one and the inbound
\* buffer otherwise, every forward uses the agent stage's body, else the first
\* stage's body, else the inbound buffer, and accounts are selected only after
\* both stages.
C5_StagesInOrderAndBufferThreaded ==
    LET expectedFinal ==
            IF agentResult.modifiedBody.present THEN agentResult.modifiedBody
            ELSE IF promptInterceptedBody.present THEN promptInterceptedBody
            ELSE requestBodyBuffer
    IN  /\ \A k \in 1..Len(steps) :
             IF k <= Len(PipelineOrder) THEN steps[k] = PipelineOrder[k]
             ELSE steps[k] \in {"proxyWithAccount", "proxyUnauthenticated"}
        /\ Called("applySystemPromptInterception") =>
             promptInterceptedBody =
                 IF "applySystemPromptInterception" \in caught THEN NoBuffer
                 ELSE applySystemPromptInterception(requestBodyBuffer,
                                                    interceptorConfig).out
        /\ Called("interceptAndModifyRequest") =>
             /\ promptInterceptedBody.present => agentStageInput = promptInterceptedBody
             /\ ~promptInterceptedBody.present => agentStageInput = requestBodyBuffer
        /\ \A k \in 1..Len(attempts) : attempts[k].body = expectedFinal
        /\ \A k \in 1..Len(unauthForwards) : unauthForwards[k].body = expectedFinal

\* both stages produced a buffer of their own and a forward used the second
C5_Witness ==
    /\ Len(attempts) > 0
    /\ promptInterceptedBody.present
    /\ promptInterceptedBody # requestBodyBuffer
    /\ agentResult.modifiedBody.present
    /\ agentResult.modifiedBody # promptInterceptedBody
    /\ attempts[1].body = agentResult.modifiedBody

\* ------------------------------------------------------------------------
\* Properties of the system-prompt interceptor
\* ------------------------------------------------------------------------

\* the inbound request is a main-agent request with two text blocks
EligibleRequest ==
    /\ requestBodyBuffer.present
    /\ requestBodyBuffer.valid
    /\ requestBodyBuffer.body.system.kind = "array"
    /\ Len(requestBodyBuffer.body.system.blocks) >= 2
    /\ requestBodyBuffer.body.system.blocks[1].hasText
    /\ requestBodyBuffer.body.system.blocks[2].hasText
    /\ Includes(requestBodyBuffer.body.system.blocks[1].text, <<MAIN_AGENT_SIGNATURE>>)
    /\ ~Includes(requestBodyBuffer.body.system.blocks[1].text, <<SUB_AGENT_SIGNATURE>>)

\* C6: when the stored config is absent or disabled, or the request has no
\* buffer, the system-prompt interceptor returns the unchanged signal, does
\* not throw, schedules no KV write, and the request continues unmodified.
C6_DisabledInterceptorIsInert ==
    ( /\ Called("applySystemPromptInterception")
      /\ \/ ~interceptorConfig.present
         \/ ~interceptorConfig.isEnabled
         \/ ~requestBodyBuffer.present ) =>
        /\ promptInterceptedBody = NoBuffer
        /\ outcome.kind # "UncaughtError"
        /\ pc = "InterceptAgent" => immediateQueue = << >>
        /\ Called("interceptAndModifyRequest") => agentStageInput = requestBodyBuffer

\* a request that would be rewritten, and bytes that do not parse, each met
\* by a disabled or missing config
C6_Witness ==
    /\ pc = "InterceptAgent"
    /\ ~interceptorConfig.isEnabled
    /\ interceptorConfig.present
    /\ EligibleRequest
    /\ requestBodyBuffer.body.tools.kind = "array"
    /\ promptInterceptedBody = NoBuffer

\* C7: for a request whose system field is not an array, under any config,
\* the system-prompt interceptor returns the unchanged signal, the buffer that
\* continues down the pipeline is the inbound one, and no KV write is scheduled.
C7_NonArraySystemIsNoOp ==
    ( /\ Called("applySystemPromptInterception")
      /\ requestBodyBuffer.present
      /\ requestBodyBuffer.valid
      /\ requestBodyBuffer.body.system.kind # "array" ) =>
        /\ promptInterceptedBody = NoBuffer
        /\ outcome.kind # "UncaughtError"
        /\ pc = "InterceptAgent" => immediateQueue = << >>
        /\ Called("interceptAndModifyRequest") => agentStageInput = requestBodyBuffer

\* a string system prompt in the sender's own byte layout under an enabled
\* config with a usable template
C7_Witness ==
    /\ Called("interceptAndModifyRequest")
    /\ requestBodyBuffer.fmt = "raw"
    /\ requestBodyBuffer.valid
    /\ requestBodyBuffer.body.system.kind = "string"
    /\ interceptorConfig.isEnabled
    /\ interceptorConfig.replacementPrompt # << >>
    /\ agentStageInput = requestBodyBuffer

\* C8: the interceptor produces a modified body only when the first system
\* block contains the main-agent signature and not the sub-agent signature;
\* when the block lacks the former or contains the latter (also when it
\* contains both) the interceptor returns unchanged.
C8_OnlyMainAgentSessionsRewritten ==
    Called("applySystemPromptInterception") =>
        /\ promptInterceptedBody.present => EligibleRequest
        /\ ( /\ requestBodyBuffer.present
             /\ requestBodyBuffer.valid
             /\ requestBodyBuffer.body.system.kind = "array"
             /\ Len(requestBodyBuffer.body.system.blocks) >= 1
             /\ requestBodyBuffer.body.system.blocks[1].hasText
             /\ \/ ~Includes(requestBodyBuffer.body.system.blocks[1].text,
                             <<MAIN_AGENT_SIGNATURE>>)
                \/ Includes(requestBodyBuffer.body.system.blocks[1].text,
                            <<SUB_AGENT_SIGNATURE>>) ) =>
               promptInterceptedBody = NoBuffer

\* both signatures in the first block, under a config that would rewrite
C8_Witness ==
    /\ Called("applySystemPromptInterception")
    /\ requestBodyBuffer.valid
    /\ requestBodyBuffer.body.system.kind = "array"
    /\ requestBodyBuffer.body.system.blocks[1].text =
          <<MAIN_AGENT_SIGNATURE, SUB_AGENT_SIGNATURE>>
    /\ requestBodyBuffer.body.tools.kind = "array"
    /\ interceptorConfig.isEnabled
    /\ interceptorConfig.replacementPrompt # << >>
    /\ ~interceptorConfig.toolsEnabled
    /\ promptInterceptedBody = NoBuffer

\* the text the specification describes: every placeholder of the template
\* replaced by the extracted value, copied as it is
RECURSIVE SubstitutePlaceholders(_, _, _)
SubstitutePlaceholders(template, envBlock, gitStatusBlock) ==
    IF Len(template) = 0 THEN << >>
    ELSE (IF template[1] = ENV_PLACEHOLDER THEN envBlock
          ELSE IF template[1] = GIT_PLACEHOLDER THEN gitStatusBlock
          ELSE <<template[1]>>)
         \o SubstitutePlaceholders(Tail(template), envBlock, gitStatusBlock)

\* C9: for an eligible request under an enabled config with a non-empty
\* replacementPrompt, the rewritten system[1].text is the replacementPrompt
\* with every {{env_block}} replaced by the extracted env value and every
\* {{git_status_block}} replaced by the extracted git-status value.
C9_RewrittenTextIsTemplateWithValues ==
    ( /\ Called("applySystemPromptInterception")
      /\ EligibleRequest
      /\ interceptorConfig.present
      /\ interceptorConfig.isEnabled
      /\ interceptorConfig.replacementPrompt # << >>
      /\ promptInterceptedBody.present ) =>
        promptInterceptedBody.body.system.blocks[2].text =
            SubstitutePlaceholders(
                interceptorConfig.replacementPrompt,
                ExtractEnvBlock(requestBodyBuffer.body.system.blocks[2].text),
                ExtractGitStatusBlock(requestBodyBuffer.body.system.blocks[2].text))

\* C10: for an eligible request that carries a tools array, under an enabled
\* config with a valid template: with toolsEnabled = false the final body has
\* no tools field and the interception result reports toolsRemoved = true;
\* with toolsEnabled = true the final body's tools are the inbound ones and
\* toolsRemoved is not true.
C10_ToolsRemovedAndReported ==
    ( /\ Called("interceptAndModifyRequest")
      /\ EligibleRequest
      /\ requestBodyBuffer.body.tools.kind = "array"
      /\ interceptorConfig.present
      /\ interceptorConfig.isEnabled
      /\ interceptorConfig.replacementPrompt # << >> ) =>
        IF ~interceptorConfig.toolsEnabled
        THEN /\ finalBodyBuffer.body.tools = AbsentTools
             /\ agentResult.toolsRemoved = "true"
        ELSE /\ finalBodyBuffer.body.tools = requestBodyBuffer.body.tools
             /\ agentResult.toolsRemoved # "true"

\* C14: a parse, validation or config-store error inside the system-prompt
\* interceptor yields the unchanged signal and never an exception; for a body
\* that is not valid JSON handleProxy still goes on to account selection and
\* every forward attempt receives the original bytes.
C14_InterceptorErrorsDegradeToUnchanged ==
    Called("applySystemPromptInterception") =>
        /\ outcome.kind # "UncaughtError"
        /\ pc # "Done" \/ Called("selectAccountsForRequest")
        /\ "applySystemPromptInterception" \in caught =>
               promptInterceptedBody = NoBuffer
        /\ (requestBodyBuffer.present /\ ~requestBodyBuffer.valid) =>
               /\ "applySystemPromptInterception" \in caught
               /\ Called("interceptAndModifyRequest") =>
                      /\ agentStageInput = requestBodyBuffer
                      /\ finalBodyBuffer = requestBodyBuffer
               /\ \A k \in 1..Len(attempts) : attempts[k].body = requestBodyBuffer
               /\ \A k \in 1..Len(unauthForwards) :
                      unauthForwards[k].body = requestBodyBuffer

\* bytes that are not JSON under an enabled config: two forward attempts,
\* both with those bytes
C14_Witness ==
    /\ requestBodyBuffer = GarbageBuffer
    /\ interceptorConfig.isEnabled
    /\ "applySystemPromptInterception" \in caught
    /\ Len(attempts) = 2
    /\ attempts[1].body = GarbageBuffer
    /\ attempts[2].body = GarbageBuffer
    /\ attempts[2].responded

\* ------------------------------------------------------------------------
\* Properties of the agent interceptor
\* ------------------------------------------------------------------------

\* the combined system text of the request the agent stage was handed
CombinedSystemText == extractSystemPrompt(agentStageInput.body).text

\* the agent stage ran on a body and none of its steps failed
AgentStageSucceeded ==
    /\ Called("interceptAndModifyRequest")
    /\ agentStageInput.present
    /\ "interceptAndModifyRequest" \notin caught

\* agent k of the list the registry returned matches the combined text
SignatureContained(k) ==
    Includes(CombinedSystemText, Trim(getAgents(registeredWorkspaces)[k].systemPrompt))

\* agentUsed is the first agent whose trimmed signature the text contains,
\* null when there is none, and the only such agent when there is one
DetectedIsFirstMatch ==
    LET agents == getAgents(registeredWorkspaces)
    IN  /\ agentResult.agentUsed = Null <=>
               \A k \in 1..Len(agents) : ~SignatureContained(k)
        /\ \A k \in 1..Len(agents) :
               (SignatureContained(k) /\ \A j \in 1..(k - 1) : ~SignatureContained(j))
                   => agentResult.agentUsed = agents[k].id

MatchedAgent ==
    LET agents == getAgents(registeredWorkspaces)
    IN  IF CombinedSystemText # << >> /\ \E k \in 1..Len(agents) : SignatureContained(k)
        THEN CHOOSE k \in 1..Len(agents) :
                SignatureContained(k) /\ \A j \in 1..(k - 1) : ~SignatureContained(j)
        ELSE 0

\* the matched agent's preferred model: the stored preference if there is
\* one, else the agent's own model
MatchedPreferredModel ==
    LET agent == getAgents(registeredWorkspaces)[MatchedAgent]
    IN  IF getAgentPreference(agent.id) # Null THEN getAgentPreference(agent.id)
        ELSE agent.model

\* C12: the model field of the returned body differs from the inbound model
\* exactly when an agent matched and its preferred model (the preference
\* override if one exists, else the agent's own model) differs from the
\* original model; then body.model = appliedModel = preferred model and
\* agentUsed is the agent's id; in every other non-failing case appliedModel =
\* originalModel and the model field is untouched.
C12_ModelRewrittenIffPreferredDiffers ==
    AgentStageSucceeded =>
        LET inbound == agentStageInput.body.model
            returned == agentResult.modifiedBody.body.model
        IN  /\ agentResult.modifiedBody.present
            /\ agentResult.originalModel = inbound
            /\ IF MatchedAgent # 0 /\ MatchedPreferredModel # inbound
               THEN /\ returned # inbound
                    /\ returned = MatchedPreferredModel
                    /\ agentResult.appliedModel = MatchedPreferredModel
                    /\ agentResult.agentUsed =
                           getAgents(registeredWorkspaces)[MatchedAgent].id
               ELSE /\ returned = inbound
                    /\ agentResult.appliedModel = agentResult.originalModel

\* Agent42's signature in the text, stored preference fast-v2, inbound model
\* base-v1 (the agent's own model): the body goes out with fast-v2
C12_Witness ==
    /\ AgentStageSucceeded
    /\ MatchedAgent # 0
    /\ agentResult.agentUsed = "Agent42"
    /\ agentStageInput.body.model = "base-v1"
    /\ agentResult.modifiedBody.body.model = "fast-v2"
    /\ agentResult.appliedModel = "fast-v2"
    /\ agentResult.originalModel = "base-v1"

\* C13: if a step of the agent interceptor fails (the body does not decode,
\* workspace registration, the directory lookup or the preference lookup
\* throws), the stage returns exactly the buffer it was given with agentUsed,
\* originalModel and appliedModel null, and no exception reaches handleProxy.
C13_AgentFailureReturnsGivenBuffer ==
    Called("interceptAndModifyRequest") =>
        /\ outcome.kind # "UncaughtError"
        /\ (agentStageInput.present /\ ~agentStageInput.valid) =>
               "interceptAndModifyRequest" \in caught
        /\ "interceptAndModifyRequest" \in caught =>
               /\ agentResult.modifiedBody = agentStageInput
               /\ agentResult.agentUsed = Null
               /\ agentResult.originalModel = Null
               /\ agentResult.appliedModel = Null
               /\ finalBodyBuffer = agentStageInput

\* a lookup fails on a request the first stage had rewritten and in which an
\* agent would have been detected: the forward carries the first stage's
\* buffer
C13_Witness ==
    /\ "interceptAndModifyRequest" \in caught
    /\ agentStageInput.valid
    /\ promptInterceptedBody.present
    /\ agentStageInput = promptInterceptedBody
    /\ MatchedAgent # 0
    /\ agentResult.agentUsed = Null
    /\ Len(attempts) > 0
    /\ attempts[1].body = promptInterceptedBody

\* ------------------------------------------------------------------------
\* Properties of the usage worker
\* ------------------------------------------------------------------------
IsGet(c) == c.op = "getUsageWorker"

\* a timer callback that found the handle set and terminated the worker
IsTeardown(c) == c.op = "timeout" /\ c.handle # 0

LiveWorkers == {w \in 1..Len(workers) : ~workers[w].terminated}

\* C15: the usage worker is a lazily created singleton: no worker exists
\* before the first getUsageWorker call; the handle refers to at most one
\* worker and never to a terminated one; two getUsageWorker calls with no
\* completed teardown between them return the same instance; the message
\* handler is installed exactly once on every instance.
C15_UsageWorkerIsLazySingleton ==
    /\ (\A k \in 1..Len(workerCalls) : ~IsGet(workerCalls[k])) => workers = << >>
    /\ usageWorkerInstance \in 0..Len(workers)
    /\ LiveWorkers = {usageWorkerInstance} \ {0}
    /\ \A j \in 1..Len(workerCalls) : \A k \in (j + 1)..Len(workerCalls) :
           ( /\ IsGet(workerCalls[j])
             /\ IsGet(workerCalls[k])
             /\ \A m \in (j + 1)..(k - 1) : ~IsTeardown(workerCalls[m]) )
           => workerCalls[j].result = workerCalls[k].result
    /\ \A k \in 1..Len(workerCalls) :
           IsGet(workerCalls[k]) =>
               /\ workerCalls[k].result \in 1..Len(workers)
               /\ workerCalls[k].result = workerCalls[k].handle
                      \/ workerCalls[k].handle = 0
    /\ \A w \in 1..Len(workers) : workers[w].onmessage = 1 /\ workers[w].unref

\* two calls return the first worker although a terminateUsageWorker call was
\* made between them; after the teardown a third call returns a second worker
C15_Witness ==
    /\ Len(workerCalls) = 5
    /\ workerCalls[1].op = "getUsageWorker" /\ workerCalls[1].result = 1
    /\ workerCalls[2].op = "terminateUsageWorker"
    /\ workerCalls[3].op = "getUsageWorker" /\ workerCalls[3].result = 1
    /\ workerCalls[4].op = "timeout" /\ workerCalls[4].handle = 1
    /\ workerCalls[5].op = "getUsageWorker" /\ workerCalls[5].result = 2
    /\ usageWorkerInstance = 2
    /\ workers[1].terminated

TerminateCallsOnLiveWorker ==
    {k \in 1..Len(workerCalls) :
        workerCalls[k].op = "terminateUsageWorker" /\ workerCalls[k].handle # 0}

TimeoutsRun == {k \in 1..Len(workerCalls) : workerCalls[k].op = "timeout"}

RECURSIVE MessagesPosted(_)
MessagesPosted(w) == IF w = 0 THEN 0 ELSE Len(workers[w].inbox) + MessagesPosted(w - 1)

\* C16: terminateUsageWorker on a live worker posts `shutdown` to it first and
\* the worker is not terminated before WORKER_SHUTDOWN_DELAY has passed since
\* then; a call that finds the handle null posts no message and sets no timer.
C16_TerminationFollowsShutdownAndGracePeriod ==
    /\ \A k \in TerminateCallsOnLiveWorker :
           \E m \in 1..Len(workers[workerCalls[k].handle].inbox) :
               workers[workerCalls[k].handle].inbox[m] = ShutdownMsg(workerCalls[k].at)
    /\ \A w \in 1..Len(workers) :
           workers[w].terminated =>
               /\ workers[w].inbox # << >>
               /\ workers[w].terminatedAt >= workers[w].inbox[1].at + WORKER_SHUTDOWN_DELAY
    /\ MessagesPosted(Len(workers)) = Cardinality(TerminateCallsOnLiveWorker)
    /\ Len(timers) + Cardinality(TimeoutsRun) = Cardinality(TerminateCallsOnLiveWorker)

\* the parts of C16 that hold: the message is posted, and a call on a null
\* handle posts nothing and sets no timer
C16_ShutdownPostedAndNullHandleNoOp ==
    /\ \A k \in TerminateCallsOnLiveWorker :
           \E m \in 1..Len(workers[workerCalls[k].handle].inbox) :
               workers[workerCalls[k].handle].inbox[m] = ShutdownMsg(workerCalls[k].at)
    /\ MessagesPosted(Len(workers)) = Cardinality(TerminateCallsOnLiveWorker)
    /\ Len(timers) + Cardinality(TimeoutsRun) = Cardinality(TerminateCallsOnLiveWorker)

\* a worker that was posted `shutdown` is terminated in the end
C16_ShutdownLeadsToTermination ==
    \A w \in 1..MaxWorkers :
        (Len(workers) >= w /\ workers[w].inbox # << >>) ~>
            (Len(workers) >= w /\ workers[w].terminated /\ usageWorkerInstance # w)

\* a second worker terminated by the timer of a call made on the first one,
\* sooner than WORKER_SHUTDOWN_DELAY after its own `shutdown` message
C16_StaleTimerTerminatesNewWorker ==
    /\ Len(workers) = 2
    /\ workers[2].terminated
    /\ workers[2].inbox # << >>
    /\ workers[2].terminatedAt < workers[2].inbox[1].at + WORKER_SHUTDOWN_DELAY

\* ------------------------------------------------------------------------
\* Properties of the last-seen writes
\* ------------------------------------------------------------------------
WritesTo(key) == {k \in 1..Len(kvWrites) : kvWrites[k].key = key}

\* C17: every setSystemKV call for last_seen_system_prompt / last_seen_tools
\* passes a value that differs from the stored one, and the requests of a run
\* with the same prompt and the same tools, a single request included, make
\* at most one such call per key.
C17_WritesDifferAndAtMostOncePerKey ==
    /\ \A k \in 1..Len(kvWrites) :
           kvWrites[k].defined => Stored(kvWrites[k].value) # kvWrites[k].before
    /\ \A key \in {LAST_SEEN_PROMPT, LAST_SEEN_TOOLS} : Cardinality(WritesTo(key)) <= 1

\* the compare-before-write alone, which holds
C17_EveryWriteChangesTheValue ==
    \A k \in 1..Len(kvWrites) :
        kvWrites[k].defined => Stored(kvWrites[k].value) # kvWrites[k].before

\* one request, two writes of last_seen_system_prompt: the inbound prompt,
\* then the prompt the first stage put in its place
C17_PromptWrittenTwiceForOneRequest ==
    /\ requestCount = 1
    /\ Cardinality(WritesTo(LAST_SEEN_PROMPT)) = 2
    /\ kvWrites[Len(kvWrites)].before = Stored(requestBodyBuffer.body.system.blocks[2].text)
    /\ kvWrites[Len(kvWrites)].value = finalBodyBuffer.body.system.blocks[2].text

\* both stages have run for an eligible request under an enabled
\* configuration that was read without error, and no callback is pending
EligibleRequestProcessed ==
    /\ Called("selectAccountsForRequest")
    /\ EligibleRequest
    /\ interceptorConfig.present
    /\ interceptorConfig.isEnabled
    /\ caught = {}
    /\ immediateQueue = << >>

\* C18: once an eligible main-agent request has been processed under an
\* enabled configuration and every deferred write has run, the stored
\* last_seen_system_prompt is the inbound system[1].text, not the rewritten one.
C18_LastSeenPromptIsInboundText ==
    EligibleRequestProcessed =>
        systemKV[LAST_SEEN_PROMPT] = Stored(requestBodyBuffer.body.system.blocks[2].text)

\* the stored value is the text of the outbound body, which differs from
\* the inbound one
C18_LastSeenPromptIsRewrittenText ==
    /\ EligibleRequestProcessed
    /\ outcome.kind = "response"
    /\ finalBodyBuffer.body.system.blocks[2].text
           # requestBodyBuffer.body.system.blocks[2].text
    /\ systemKV[LAST_SEEN_PROMPT] = Stored(finalBodyBuffer.body.system.blocks[2].text)

\* ------------------------------------------------------------------------
\* Properties of the forwarded bytes
\* ------------------------------------------------------------------------

\* the first stage returned null and the agent stage reports no change
NeitherStageModified ==
    /\ Called("interceptAndModifyRequest")
    /\ ~promptInterceptedBody.present
    /\ agentResult.appliedModel = agentResult.originalModel
    /\ agentResult.systemPromptModified # "true"
    /\ agentResult.toolsRemoved # "true"

\* C19: when neither stage modifies the request, every forward is handed the
\* inbound buffer itself, byte for byte, not a re-encoding of the parsed body.
C19_UnmodifiedRequestForwardsInboundBytes ==
    NeitherStageModified =>
        /\ finalBodyBuffer = requestBodyBuffer
        /\ \A k \in 1..Len(attempts) : attempts[k].body = requestBodyBuffer
        /\ \A k \in 1..Len(unauthForwards) : unauthForwards[k].body = requestBodyBuffer

\* a parsed request with a system prompt in which no agent is detected, under
\* an enabled configuration: two forward attempts with the inbound bytes
C19_Witness ==
    /\ NeitherStageModified
    /\ requestBodyBuffer.valid
    /\ requestBodyBuffer.fmt = "raw"
    /\ requestBodyBuffer.body.system.kind = "array"
    /\ interceptorConfig.isEnabled
    /\ agentResult.agentUsed = Null
    /\ Len(attempts) = 2
    /\ attempts[1].body = requestBodyBuffer
    /\ attempts[2].body = requestBodyBuffer

\* ------------------------------------------------------------------------
\* Properties of repeated interception
\* ------------------------------------------------------------------------

\* the first stage has run on the input, under the configuration, of the
\* first rewrite
SameInputAsFirstRewrite ==
    /\ firstRewrite.set
    /\ Called("applySystemPromptInterception")
    /\ "applySystemPromptInterception" \notin caught
    /\ requestBodyBuffer = firstRewrite.input
    /\ interceptorConfig = firstRewrite.cfg

ToolsRemovedByFirstStage ==
    /\ requestBodyBuffer.body.tools.kind # "absent"
    /\ promptInterceptedBody.body.tools.kind = "absent"

\* C21: the system-prompt interceptor returns a re-encoded body only if
\* something changed: the text of system[1] differs from the inbound one or
\* the tools array was removed; otherwise it returns the unchanged signal.
C21_BufferReturnedOnlyOnChange ==
    (Called("applySystemPromptInterception") /\ promptInterceptedBody.present) =>
        \/ promptInterceptedBody.body.system.blocks[2].text
               # requestBodyBuffer.body.system.blocks[2].text
        \/ ToolsRemovedByFirstStage

\* a new buffer whose decoded body equals the decoded inbound body
C21_ReencodedWithoutChange ==
    /\ Called("applySystemPromptInterception")
    /\ promptInterceptedBody.present
    /\ promptInterceptedBody.body = requestBodyBuffer.body
    /\ promptInterceptedBody # requestBodyBuffer

\* C22: under an enabled configuration whose replacementPrompt is empty the
\* system-prompt interceptor returns unchanged for every request: system[1]
\* is not overwritten and the tools array stays, also with toolsEnabled false.
C22_EmptyReplacementPromptDisablesRewrite ==
    ( /\ Called("applySystemPromptInterception")
      /\ interceptorConfig.present
      /\ interceptorConfig.isEnabled
      /\ interceptorConfig.replacementPrompt = << >> ) =>
        /\ promptInterceptedBody = NoBuffer
        /\ outcome.kind # "UncaughtError"
        /\ Called("interceptAndModifyRequest") =>
               /\ agentStageInput = requestBodyBuffer
               /\ finalBodyBuffer.body.system = requestBodyBuffer.body.system
               /\ finalBodyBuffer.body.tools = requestBodyBuffer.body.tools
        /\ \A k \in 1..Len(attempts) :
               /\ attempts[k].body.body.system = requestBodyBuffer.body.system
               /\ attempts[k].body.body.tools = requestBodyBuffer.body.tools

\* an eligible request with a tools array, forwarded with its prompt and its
\* tools under an enabled configuration with an empty replacementPrompt and
\* toolsEnabled false
C22_Witness ==
    /\ EligibleRequest
    /\ interceptorConfig.isEnabled
    /\ interceptorConfig.replacementPrompt = << >>
    /\ ~interceptorConfig.toolsEnabled
    /\ "applySystemPromptInterception" \notin caught
    /\ requestBodyBuffer.body.tools.kind = "array"
    /\ Len(attempts) = 1
    /\ attempts[1].responded
    /\ attempts[1].body.body.tools = requestBodyBuffer.body.tools
    /\ attempts[1].body.body.system = requestBodyBuffer.body.system

\* ------------------------------------------------------------------------
\* Properties of the agent stage's own prompt interception
\* ------------------------------------------------------------------------

\* the agent stage was given a buffer and returned without its catch clause
AgentStageReturnedNormally ==
    /\ Called("interceptAndModifyRequest")
    /\ agentStageInput.present
    /\ "interceptAndModifyRequest" \notin caught
    /\ outcome.kind # "UncaughtError"

\* extractSystemPrompt found no content in the body the stage was given
NoSystemContent == ~extractSystemPrompt(agentStageInput.body).found

\* C23: on every call with a buffer that does not fail, the agent interceptor
\* runs the system-prompt interception on the decoded request exactly once,
\* matched agent or not, and also when the request has no system content, in
\* which case agentUsed is null.
C23_InnerInterceptionRunsExactlyOnce ==
    AgentStageReturnedNormally =>
        /\ innerCalls = 1
        /\ NoSystemContent => agentResult.agentUsed = Null

\* the part of C23 that holds: once when system content was found, and
\* agentUsed is null when none was
C23_InnerInterceptionRunsOnceWithSystemContent ==
    AgentStageReturnedNormally =>
        /\ innerCalls <= 1
        /\ ~NoSystemContent /\ CombinedSystemText # << >> => innerCalls = 1
        /\ NoSystemContent => agentResult.agentUsed = Null

\* a request without system content: the stage has returned and the
\* interception did not run
C23_InnerInterceptionSkipped ==
    /\ AgentStageReturnedNormally
    /\ agentStageInput.valid
    /\ NoSystemContent
    /\ innerCalls = 0

\* ------------------------------------------------------------------------
\* Properties of the combined system text
\* ------------------------------------------------------------------------

ContentText(c) ==
    IF c.kind = "string" THEN c.text
    ELSE IF c.kind = "array" THEN JoinedText(c.blocks)
    ELSE << >>

\* the texts of the given messages that have the role, in message order
RECURSIVE TextsOfRole(_, _)
TextsOfRole(messages, role) ==
    IF Len(messages) = 0 THEN << >>
    ELSE (IF messages[1].role = role /\ ContentText(messages[1].content) # << >>
          THEN <<ContentText(messages[1].content)>> ELSE << >>)
         \o TextsOfRole(Tail(messages), role)

RECURSIVE OnlyWithClaudeMdMarkers(_)
OnlyWithClaudeMdMarkers(texts) ==
    IF Len(texts) = 0 THEN << >>
    ELSE (IF HasClaudeMdMarkers(texts[1]) THEN <<texts[1]>> ELSE << >>)
         \o OnlyWithClaudeMdMarkers(Tail(texts))

\* root-level system text, every system-role message, every user message
\* with both markers, joined by blank lines
EverySystemSource(body) ==
    Join( (IF ContentText(body.system) # << >> THEN <<ContentText(body.system)>>
           ELSE << >>)
          \o TextsOfRole(body.messages, "system")
          \o OnlyWithClaudeMdMarkers(TextsOfRole(body.messages, "user")),
          <<NEWLINE, NEWLINE>> )

\* C24: the text used for agent detection is the root-level system text, the
\* text of every system-role message and the text of every user message with
\* both markers, in this order, separated by blank lines; a signature that
\* is only in a second system-role or second marked user message is detected.
C24_EverySystemAndMarkedUserMessageUsed ==
    AgentStageSucceeded =>
        /\ CombinedSystemText = EverySystemSource(agentStageInput.body)
        /\ \A k \in 1..Len(agentList) :
               ( /\ Includes(EverySystemSource(agentStageInput.body),
                             Trim(agentList[k].systemPrompt))
                 /\ \A j \in 1..(k - 1) :
                       ~Includes(EverySystemSource(agentStageInput.body),
                                 Trim(agentList[j].systemPrompt)) )
               => agentResult.agentUsed = agentList[k].id

\* the signature of an agent is only in the second system-role message and
\* no agent is detected
C24_SecondSystemMessageIgnored ==
    /\ AgentStageSucceeded
    /\ Len(agentStageInput.body.messages) = 2
    /\ agentStageInput.body.messages[1] = Message("system", StringContent(<<"hello">>))
    /\ agentStageInput.body.messages[2] = Message("system", StringContent(<<"sig7">>))
    /\ agentResult.agentUsed = Null

\* the part of C24 that holds: with at most one system-role and at most one
\* user message the text is made of every source
C24_SingleMessagesPerRoleUsed ==
    ( /\ AgentStageSucceeded
      /\ \A r \in {"system", "user"} :
            Cardinality({k \in 1..Len(agentStageInput.body.messages) :
                            agentStageInput.body.messages[k].role = r}) <= 1 )
    => CombinedSystemText = EverySystemSource(agentStageInput.body)

\* ------------------------------------------------------------------------
\* Properties of workspace registration
\* ------------------------------------------------------------------------

\* workspaces the agent stage finds in the text and that exist on disk
DiscoveredWorkspaces ==
    {WorkspaceOf(d) : d \in extractAgentDirectories(CombinedSystemText)}
        \cap ExistingWorkspaces

\* the stage's catch clause ran on a body that parsed while a discovered
\* workspace is still unregistered: registerWorkspace is the call that
\* failed, since getAgents and getAgentPreference are called after it
RegistrationFailed ==
    /\ Called("interceptAndModifyRequest")
    /\ agentStageInput.valid
    /\ "interceptAndModifyRequest" \in caught
    /\ ~(DiscoveredWorkspaces \subseteq registeredWorkspaces)

\* what the stage returns for the same input when no call fails
ResultWithRegistration ==
    interceptAndModifyRequest(agentStageInput, interceptorConfig,
                              registeredWorkspaces, "none").result

\* C25: when registerWorkspace fails for a discovered directory, agentUsed,
\* appliedModel and the returned body are what they are when the
\* registration succeeds.
C25_RegistrationFailureKeepsMainResult ==
    RegistrationFailed =>
        /\ agentResult.agentUsed = ResultWithRegistration.agentUsed
        /\ agentResult.appliedModel = ResultWithRegistration.appliedModel
        /\ agentResult.modifiedBody = ResultWithRegistration.modifiedBody

\* registration failed for a request in which Agent7 is detected when it
\* succeeds: no agent is reported and the model is not applied
C25_RegistrationFailureLosesAgent ==
    /\ RegistrationFailed
    /\ ResultWithRegistration.agentUsed = "Agent7"
    /\ ResultWithRegistration.appliedModel = "slow-v3"
    /\ ResultWithRegistration.modifiedBody # agentStageInput
    /\ agentResult.agentUsed = Null
    /\ agentResult.appliedModel = Null
    /\ agentResult.modifiedBody = agentStageInput


\* ------------------------------------------------------------------------
\* C26
\* ------------------------------------------------------------------------

\* a step in which handleProxy calls one of the two interceptors
InterceptorCallStep == pc \in {"InterceptPrompt", "InterceptAgent"} /\ pc' # pc

\* a step in which a last-seen callback runs
CallbackStep ==
    /\ pc' = pc
    /\ \/ Len(immediateQueue') < Len(immediateQueue)
       \/ systemKV' # systemKV
       \/ kvWrites' # kvWrites
       \/ kvFailed' # kvFailed

StillQueued ==
    /\ Len(immediateQueue') >= Len(immediateQueue)
    /\ SubSeq(immediateQueue', 1, Len(immediateQueue)) = immediateQueue

\* C26: the last-seen updates are off the request path.  A step that is an
\* interceptor call neither reads nor writes the store: what it schedules
\* is only queued, behind what was queued before, and runs in a later step.
\* A step in which a callback runs, whether or not the store throws in it,
\* changes nothing of the request (no error, no body, no result, no
\* position), takes the callback off the queue and does not queue it again;
\* when the store throws it is left as it was.
C26_LastSeenUpdatesOffRequestPath ==
    [][ /\ InterceptorCallStep =>
              /\ UNCHANGED <<systemKV, kvWrites, kvFailed>>
              /\ StillQueued
        /\ CallbackStep =>
              /\ UNCHANGED <<requestVars, caught>>
              /\ immediateQueue' = Tail(immediateQueue)
              /\ kvFailed' # kvFailed => UNCHANGED <<systemKV, kvWrites>>
      ]_vars

\* a request whose prompt was rewritten and forwarded although the update
\* of the last-seen prompt failed; nothing is left in the queue
C26_Witness ==
    /\ kvFailed
    /\ immediateQueue = << >>
    /\ ~systemKV[LAST_SEEN_PROMPT].set
    /\ Called("interceptAndModifyRequest")
    /\ promptInterceptedBody.present
    /\ outcome.kind = "response"
    /\ caught = {}


\* ------------------------------------------------------------------------
\* C27
\* ------------------------------------------------------------------------

\* the first stage rewrote an eligible request under a template that has
\* the {{env_block}} placeholder
RewrittenWithEnvPlaceholder ==
    /\ Called("applySystemPromptInterception")
    /\ EligibleRequest
    /\ interceptorConfig.present
    /\ interceptorConfig.isEnabled
    /\ Includes(interceptorConfig.replacementPrompt, <<ENV_PLACEHOLDER>>)
    /\ promptInterceptedBody.present

InboundEnvBlock == ExtractEnvBlock(requestBodyBuffer.body.system.blocks[2].text)

HasToken(text, token) == \E k \in 1..Len(text) : text[k] = token

\* C27: whatever the env block of the inbound prompt is made of, the text
\* the first stage writes under a template with {{env_block}} contains that
\* env block character for character.
C27_EnvBlockInsertedVerbatim ==
    RewrittenWithEnvPlaceholder =>
        Includes(promptInterceptedBody.body.system.blocks[2].text, InboundEnvBlock)

\* the same for env blocks without a dollar sign and without the text
\* {{git_status_block}}
C27_PlainEnvBlockInsertedVerbatim ==
    ( /\ RewrittenWithEnvPlaceholder
      /\ ~HasToken(InboundEnvBlock, DOLLAR)
      /\ ~HasToken(InboundEnvBlock, GIT_PLACEHOLDER) ) =>
        Includes(promptInterceptedBody.body.system.blocks[2].text, InboundEnvBlock)

\* an env block <env>$$</env> that reaches the rewritten text as <env>$</env>
C27_DollarSequenceInEnvBlockExpanded ==
    /\ RewrittenWithEnvPlaceholder
    /\ interceptorConfig.replacementPrompt = <<ENV_PLACEHOLDER>>
    /\ InboundEnvBlock = <<ENV_OPEN, DOLLAR, DOLLAR, ENV_CLOSE>>
    /\ promptInterceptedBody.body.system.blocks[2].text = <<ENV_OPEN, DOLLAR, ENV_CLOSE>>

\* an env block holding the text {{git_status_block}}, which the second
\* replace call substitutes
C27_PlaceholderInEnvBlockSubstituted ==
    /\ RewrittenWithEnvPlaceholder
    /\ interceptorConfig.replacementPrompt = <<ENV_PLACEHOLDER>>
    /\ InboundEnvBlock = <<ENV_OPEN, GIT_PLACEHOLDER, ENV_CLOSE>>
    /\ promptInterceptedBody.body.system.blocks[2].text = <<ENV_OPEN, ENV_CLOSE>>


\* ------------------------------------------------------------------------
\* C28
\* ------------------------------------------------------------------------

\* the timer callbacks that terminated a worker
TerminatingTimeouts == {k \in TimeoutsRun : workerCalls[k].handle # 0}

\* the terminateUsageWorker call that set the timer of timeout k was made
\* on worker w
SetForWorker(k, w) ==
    \E j \in 1..(k - 1) :
        /\ workerCalls[j].op = "terminateUsageWorker"
        /\ workerCalls[j].handle = w
        /\ workerCalls[j].at = workerCalls[k].result

\* C28: under every interleaving of getUsageWorker, terminateUsageWorker and
\* the timers, a worker is terminated only by a timer that a
\* terminateUsageWorker call on that same worker has set, hence after its
\* own `shutdown` message and a full WORKER_SHUTDOWN_DELAY later.
C28_WorkerTerminatedOnlyByItsOwnTimer ==
    \A k \in TerminatingTimeouts :
        /\ SetForWorker(k, workerCalls[k].handle)
        /\ workerCalls[k].at >= workerCalls[k].result + WORKER_SHUTDOWN_DELAY

\* what does hold: a timer never runs before its own delay has passed
C28_TimerRunsAfterItsDelay ==
    \A k \in TimeoutsRun :
        workerCalls[k].at >= workerCalls[k].result + WORKER_SHUTDOWN_DELAY

\* a worker terminated although no `shutdown` was ever posted to it, by a
\* timer set before the worker was created
C28_WorkerTerminatedWithoutShutdown ==
    \E w \in 1..Len(workers) : \E k \in TerminatingTimeouts :
        /\ workers[w].terminated
        /\ workers[w].inbox = << >>
        /\ workerCalls[k].handle = w
        /\ workerCalls[k].result < workers[w].createdAt


\* ------------------------------------------------------------------------
\* C29
\* ------------------------------------------------------------------------

\* C29: once terminateUsageWorker has posted `shutdown` to a worker, no
\* later getUsageWorker call returns that worker.
C29_ShutDownWorkerNeverReturned ==
    \A j \in TerminateCallsOnLiveWorker : \A k \in (j + 1)..Len(workerCalls) :
        IsGet(workerCalls[k]) => workerCalls[k].result # workerCalls[j].handle

\* what does hold: a worker that a timer has terminated is never returned
C29_TerminatedWorkerNeverReturned ==
    \A j \in TerminatingTimeouts : \A k \in (j + 1)..Len(workerCalls) :
        IsGet(workerCalls[k]) => workerCalls[k].result # workerCalls[j].handle

\* getUsageWorker returns the first worker during its grace period: the
\* worker holds the `shutdown` message and is not terminated yet
C29_WorkerReturnedDuringGracePeriod ==
    /\ Len(workerCalls) = 3
    /\ workerCalls[1].op = "getUsageWorker" /\ workerCalls[1].result = 1
    /\ workerCalls[2].op = "terminateUsageWorker" /\ workerCalls[2].handle = 1
    /\ workerCalls[3].op = "getUsageWorker" /\ workerCalls[3].result = 1
    /\ workers[1].inbox = <<ShutdownMsg(workerCalls[2].at)>>
    /\ ~workers[1].terminated


\* ------------------------------------------------------------------------
\* C30
\* ------------------------------------------------------------------------

\* a step in which handleProxy calls the agent stage and the call returns
\* without having caught an error
AgentStageStep ==
    /\ pc = "InterceptAgent"
    /\ pc' = "SelectAccounts"
    /\ "interceptAndModifyRequest" \notin caught'

\* the agent stage run on the bytes the client sent, with the workspaces
\* that are registered when it is called
DirectAgentResult(registered) ==
    interceptAndModifyRequest(requestBodyBuffer, interceptorConfig, registered, "none").result

\* C30: the agent and the applied model that the two stages produce are the
\* ones the agent stage produces when it is given the inbound body itself.
C30_PipelineDetectsSameAgentAsDirectRun ==
    [][ AgentStageStep =>
          /\ agentResult'.agentUsed = DirectAgentResult(registeredWorkspaces).agentUsed
          /\ agentResult'.appliedModel = DirectAgentResult(registeredWorkspaces).appliedModel
      ]_vars

\* the same for requests that the first stage left alone
C30_SameAgentWhenFirstStageUnchanged ==
    [][ (AgentStageStep /\ promptInterceptedBody = NoBuffer /\ requestBodyBuffer.present) =>
          /\ agentResult'.agentUsed = DirectAgentResult(registeredWorkspaces).agentUsed
          /\ agentResult'.appliedModel = DirectAgentResult(registeredWorkspaces).appliedModel
      ]_vars

\* the first stage has replaced a system[1].text that held the signature of
\* Agent7: the agent stage finds no agent and keeps the model, while on the
\* inbound body it finds Agent7 and applies slow-v3
C30_RewriteHidesAgent ==
    /\ Called("interceptAndModifyRequest")
    /\ "interceptAndModifyRequest" \notin caught
    /\ promptInterceptedBody.present
    /\ agentStageInput = promptInterceptedBody
    /\ agentResult.agentUsed = Null
    /\ agentResult.appliedModel = "base-v1"
    /\ DirectAgentResult(registeredWorkspaces).agentUsed = "Agent7"
    /\ DirectAgentResult(registeredWorkspaces).appliedModel = "slow-v3"

============================================================================
